---- MODULE Spec2Model ----
(***************************************************************************)
(* A model of odoo-await (lib/index.js): the OdooAwait client, its field   *)
(* encoder parseManyFields, its CRUD and external-identifier operations,   *)
(* and the XML-RPC gateway and Odoo backend they talk to.                  *)
(*                                                                         *)
(* JavaScript values are tagged records, so that values of different       *)
(* types can be compared:                                                  *)
(*   undefined, null, numbers, strings, booleans, arrays (a sequence of    *)
(*   values) and objects (a sequence of <<key, value>> entries in          *)
(*   insertion order, which is the order of Object.entries).               *)
(***************************************************************************)
EXTENDS Integers, Sequences, FiniteSets, TLC

VARIABLES
    uid,      \* this.uid, the stored session user id
    pc,       \* per caller: where its operation is suspended
    call,     \* per caller: the operation called and its arguments
    heap,     \* per caller: the field-map object it passed, as it is now
    sent,     \* per caller: the RPC calls its current operation has issued
    local,    \* per caller: the operation's local variables
    outcome,  \* per caller: how the operation's promise settled
    irData,   \* backend: the rows of 'ir.model.data', in retrieval order
    nextId,   \* backend: the id the next created record gets
    related,  \* backend: the ids in the relation field of one record
    bindings, \* history: the external ids the callers have bound, and to what
    nops      \* number of operations started so far

vars == <<uid, pc, call, heap, sent, local, outcome, irData, nextId, related, bindings, nops>>

-----------------------------------------------------------------------------
(* JavaScript values *)

Undefined == [t |-> "undefined"]
Null == [t |-> "null"]
Num(n) == [t |-> "number", n |-> n]
Str(s) == [t |-> "string", s |-> s]
Bool(b) == [t |-> "boolean", b |-> b]
Arr(items) == [t |-> "array", items |-> items]
Obj(ents) == [t |-> "object", ents |-> ents]

\* ToBoolean: what `if (v)` and `!v` see
Truthy(v) ==
    CASE v.t = "undefined" -> FALSE
      [] v.t = "null" -> FALSE
      [] v.t = "number" -> v.n # 0
      [] v.t = "string" -> v.s # ""
      [] v.t = "boolean" -> v.b
      [] OTHER -> TRUE

IsArray(v) == v.t = "array"

HasKey(o, k) == o.t = "object" /\ \E i \in 1..Len(o.ents) : o.ents[i][1] = k

\* property read o.k : undefined when o has no such property (or is no object;
\* the model's arrays, strings and numbers carry none of the keys read)
Get(o, k) ==
    IF HasKey(o, k)
    THEN o.ents[CHOOSE i \in 1..Len(o.ents) : o.ents[i][1] = k][2]
    ELSE Undefined

\* property write o.k = v on an object: in place when the key exists,
\* appended otherwise
Put(o, k, v) ==
    IF HasKey(o, k)
    THEN Obj([i \in 1..Len(o.ents) |->
                IF o.ents[i][1] = k THEN <<k, v>> ELSE o.ents[i]])
    ELSE Obj(Append(o.ents, <<k, v>>))

\* new Error(message); a message is the sequence of the parts it is
\* concatenated from
Error(parts) == [t |-> "Error", message |-> parts]

-----------------------------------------------------------------------------
(* parseManyFields: one switch case per definition.  Each returns           *)
(*   threw  - whether the case throws                                       *)
(*   err    - the Error thrown                                              *)
(*   val    - what params[key] is assigned                                  *)
(*   obj    - the command object val after the case (replace writes val.id) *)

Thrown(val, msg) == [threw |-> TRUE, err |-> Error(<<msg>>), val |-> val, obj |-> val]
Assigned(val, new) == [threw |-> FALSE, err |-> Undefined, val |-> new, obj |-> val]

Tuple3(a, b, c) == Arr(<<a, b, c>>)

CreateTuple(value) == Tuple3(Num(0), Num(0), value)
\* AddTuple with the tag of remove
AddTuple_Tag3(id) == Tuple3(Num(3), id, Num(0))
AddTuple(id) == Tuple3(Num(4), id, Num(0))
RemoveTuple(id) == Tuple3(Num(3), id, Num(0))
DeleteTuple(id) == Tuple3(Num(2), id, Num(0))

caseCreate(val) ==
    IF ~Truthy(Get(val, "value"))
    THEN Thrown(val, "'create' action requires a value object or an array of value objects")
    ELSE Assigned(val, IF IsArray(Get(val, "value"))
                       THEN Arr([i \in 1..Len(Get(val, "value").items) |->
                                 CreateTuple(Get(val, "value").items[i])])
                       ELSE Arr(<<CreateTuple(Get(val, "value"))>>))

caseUpdate(val) ==
    IF ~Truthy(Get(val, "id")) \/ ~Truthy(Get(val, "value"))
    THEN Thrown(val, "'update' action requires both an ID number and a value object")
    ELSE Assigned(val, Arr(<<Tuple3(Num(1), Get(val, "id"), Get(val, "value"))>>))

caseAdd(val) ==
    IF ~Truthy(Get(val, "id"))
    THEN Thrown(val, "'add' action requires an ID or array of ID's to add to add to the set")
    ELSE Assigned(val, IF IsArray(Get(val, "id"))
                       THEN Arr([i \in 1..Len(Get(val, "id").items) |->
                                 AddTuple(Get(val, "id").items[i])])
                       ELSE Arr(<<AddTuple(Get(val, "id"))>>))

caseRemove(val) ==
    IF ~Truthy(Get(val, "id"))
    THEN Thrown(val, "'remove' action requires an ID or array of ID's to remove from the set")
    ELSE Assigned(val, IF IsArray(Get(val, "id"))
                       THEN Arr([i \in 1..Len(Get(val, "id").items) |->
                                 RemoveTuple(Get(val, "id").items[i])])
                       ELSE Arr(<<RemoveTuple(Get(val, "id"))>>))

caseDelete(val) ==
    IF ~Truthy(Get(val, "id"))
    THEN Thrown(val, "'delete' action requires an ID or array of ID's to delete")
    ELSE Assigned(val, IF IsArray(Get(val, "id"))
                       THEN Arr([i \in 1..Len(Get(val, "id").items) |->
                                 DeleteTuple(Get(val, "id").items[i])])
                       ELSE Arr(<<DeleteTuple(Get(val, "id"))>>))

\* caseClear taking the id 0 out of the set instead
caseClear_RemoveZero(val) == Assigned(val, Arr(<<Tuple3(Num(3), Num(0), Num(0))>>))

caseClear(val) == Assigned(val, Arr(<<Tuple3(Num(5), Num(0), Num(0))>>))

\* caseReplace without its check of val.id
caseReplace_NoCheck(val) ==
    LET val2 == IF IsArray(Get(val, "id"))
                THEN val
                ELSE Put(val, "id", Arr(<<Get(val, "id")>>))
    IN  [threw |-> FALSE, err |-> Undefined,
         val |-> Arr(<<Tuple3(Num(6), Num(0), Get(val2, "id"))>>),
         obj |-> val2]

caseReplace(val) ==
    IF ~Truthy(Get(val, "id"))
    THEN Thrown(val, "'replace' action requires an ID or array of ID's to add to the set")
    ELSE LET val2 == IF IsArray(Get(val, "id"))
                     THEN val
                     ELSE Put(val, "id", Arr(<<Get(val, "id")>>))
         IN  [threw |-> FALSE, err |-> Undefined,
              val |-> Arr(<<Tuple3(Num(6), Num(0), Get(val2, "id"))>>),
              obj |-> val2]

\* caseNone putting every list it meets into a list
caseNone_Nest(val) == Assigned(val, IF IsArray(val) THEN Arr(<<val>>) ELSE val)

\* caseNone rewriting a bare list as a replace
caseNone_ListAsReplace(val) ==
    Assigned(val, IF IsArray(val) THEN Arr(<<Tuple3(Num(6), Num(0), val)>>) ELSE val)

\* the switch has no default case: any other action leaves params[key] alone
caseNone(val) == Assigned(val, val)

\* the body of the for loop, for one [key, val] entry
\* parseEntry reading val.action of whatever val is: null has no properties
parseEntry_NoNullCheck(val) ==
    IF val \in {Null, Undefined}
    THEN Thrown(val, "Cannot read property 'action' of null")
    ELSE IF Truthy(Get(val, "action"))
    THEN LET action == Get(val, "action") IN
         CASE action = Str("create") -> caseCreate(val)
           [] action = Str("update") -> caseUpdate(val)
           [] action = Str("add") -> caseAdd(val)
           [] action = Str("remove") -> caseRemove(val)
           [] action = Str("delete") -> caseDelete(val)
           [] action = Str("clear") -> caseClear(val)
           [] action = Str("replace") -> caseReplace(val)
           [] OTHER -> caseNone(val)
    ELSE caseNone(val)

parseEntry(val) ==
    IF Truthy(val) /\ Truthy(Get(val, "action"))
    THEN LET action == Get(val, "action") IN
         CASE action = Str("create") -> caseCreate(val)
           [] action = Str("update") -> caseUpdate(val)
           [] action = Str("add") -> caseAdd(val)
           [] action = Str("remove") -> caseRemove(val)
           [] action = Str("delete") -> caseDelete(val)
           [] action = Str("clear") -> caseClear(val)
           [] action = Str("replace") -> caseReplace(val)
           [] OTHER -> caseNone(val)
    ELSE caseNone(val)

\* The caller's field-map object: params are its entries now, objs the values
\* the entries held when it was passed in (the caller's command objects), as
\* they are now.
HeapOf(ents) == [params |-> ents, objs |-> [i \in 1..Len(ents) |-> ents[i][2]]]

RECURSIVE parseLoop(_, _, _)
parseLoop(entries, i, st) ==
    IF i > Len(entries)
    THEN st
    ELSE LET r == parseEntry(entries[i][2]) IN
         IF r.threw
         THEN [st EXCEPT !.threw = TRUE, !.err = r.err]
         ELSE parseLoop(entries, i + 1,
                        [st EXCEPT !.heap.params[i] = <<entries[i][1], r.val>>,
                                   !.heap.objs[i] = r.obj])

\* parseManyFields(params) on the object whose entries are ents: the object
\* after the call, and whether and what it threw.  It returns the same object.
parseManyFields(ents) ==
    parseLoop(ents, 1, [heap |-> HeapOf(ents), threw |-> FALSE, err |-> Undefined])

-----------------------------------------------------------------------------
(* The client instance and its callers *)

Procs == {1, 2}

MaxOps == 2

\* constructor defaults
db == "odoo_db"
username == "admin"
password == "admin"

IrModelData == "ir.model.data"
DefaultModule == "__api__"

NoCall == [op |-> "none", model |-> "", recordId |-> Undefined, params |-> <<>>,
           externalId |-> Undefined, moduleName |-> Undefined, fields |-> Undefined,
           domain |-> Undefined, opts |-> Undefined, method |-> ""]
NoLocal == [recordId |-> Undefined, irModelData |-> Undefined, replies |-> <<>>]
NoOutcome == [status |-> "none", value |-> Undefined]
Pending == [status |-> "pending", value |-> Undefined]
Fulfilled(v) == [status |-> "fulfilled", value |-> v]
Rejected(e) == [status |-> "rejected", value |-> e]

Init ==
    /\ uid = Num(0)
    /\ pc = [p \in Procs |-> "idle"]
    /\ call = [p \in Procs |-> NoCall]
    /\ heap = [p \in Procs |-> HeapOf(<<>>)]
    /\ sent = [p \in Procs |-> <<>>]
    /\ local = [p \in Procs |-> NoLocal]
    /\ outcome = [p \in Procs |-> NoOutcome]
    /\ irData = <<>>
    /\ nextId = 42
    /\ related = {}
    /\ bindings = <<>>
    /\ nops = 0

\* a caller may call an operation when its previous one has settled
CanStart(p) == pc[p] \in {"idle", "done"} /\ nops < MaxOps

\* client.methodCall('execute_kw', params, ...) after
\* params.unshift(this.db, this.uid, this.password, model, method)
execute_kw(model, method, params) ==
    [method |-> "execute_kw",
     params |-> <<Str(db), uid, Str(password), Str(model), Str(method)>> \o params]

\* the call a suspended operation is waiting on
InFlight(p) == sent[p][Len(sent[p])]

callModel(c) == c.params[4].s
callMethod(c) == c.params[5].s
\* the operation's own params, after the five that execute_kw puts in front
callArgs(c) == SubSeq(c.params, 6, Len(c.params))

-----------------------------------------------------------------------------
(* Inputs *)

\* an object literal with the properties whose value is given (not undefined)
RECURSIVE Literal(_)
Literal(ents) ==
    IF ents = <<>> THEN <<>>
    ELSE IF ents[1][2] = Undefined THEN Literal(Tail(ents))
    ELSE <<ents[1]>> \o Literal(Tail(ents))

\* {action: a, id: id, value: value}
Command(a, id, value) ==
    Obj(Literal(<< <<"action", a>>, <<"id", id>>, <<"value", value>> >>))

ValueObj1 == Obj(<< <<"name", Str("a")>> >>)
ValueObj2 == Obj(<< <<"name", Str("b")>> >>)

Actions == {"add", "create", "update", "remove", "delete", "clear", "replace"}

CommandIds == {Undefined, Num(0), Num(3), Arr(<<>>), Arr(<<Num(3), Num(5)>>)}
CommandValues == {Undefined, ValueObj1, Arr(<<>>), Arr(<<ValueObj1, ValueObj2>>)}

\* every command shape, well-formed or not, and two actions the switch
\* does not know
Commands ==
    {Command(Str(a), id, value) :
        a \in Actions \cup {"set", "Add"}, id \in CommandIds, value \in CommandValues}

\* values that are no relation command
PlainValues ==
    {Null, Num(0), Num(7), Str(""), Str("a"), Bool(FALSE), Bool(TRUE),
     Arr(<<>>), Arr(<<Num(1), Num(2)>>), ValueObj1,
     Command(Str(""), Num(3), Undefined), Command(Null, Undefined, ValueObj1)}

\* the field maps the encoder is checked on: every value alone, and pairs of
\* a few of them
PairValues ==
    {Str("a"), Arr(<<Num(1), Num(2)>>),
     Command(Str("add"), Num(3), Undefined),
     Command(Str("add"), Undefined, Undefined),
     Command(Str("replace"), Num(3), Undefined),
     Command(Str("update"), Num(3), Undefined),
     Command(Str("create"), Undefined, ValueObj1),
     Command(Str("set"), Num(3), Undefined)}

EncFieldMaps ==
    {<<>>}
    \cup {<< <<"category_id", v>> >> : v \in Commands \cup PlainValues}
    \cup {<< <<"category_id", v>>, <<"child_ids", w>> >> : v \in PairValues, w \in PairValues}

\* the field maps create and update are called with
FieldMaps ==
    {<<>>,
     << <<"name", Str("a")>> >>,
     << <<"name", Null>> >>,
     << <<"name", Str("")>>, <<"active", Bool(FALSE)>>, <<"color", Num(0)>>,
        <<"parent_id", Null>> >>,
     << <<"category_id", Arr(<<Num(1), Num(2)>>)>> >>,
     << <<"category_id", Command(Str("add"), Arr(<<Num(3), Num(5)>>), Undefined)>> >>,
     << <<"category_id", Command(Str("replace"), Num(3), Undefined)>> >>,
     << <<"category_id", Command(Str("clear"), Undefined, Undefined)>> >>,
     << <<"category_id", Command(Str("update"), Undefined, ValueObj1)>> >>,
     << <<"category_id", Command(Str("update"), Num(3), Undefined)>> >>,
     << <<"category_id", Command(Str("create"), Num(3), Undefined)>> >>,
     << <<"category_id", Command(Str("remove"), Undefined, Undefined)>> >>,
     << <<"category_id", Command(Str("delete"), Undefined, ValueObj1)>> >>,
     << <<"category_id", Command(Str("replace"), Undefined, Undefined)>> >>,
     << <<"category_id", Command(Str("set"), Num(3), Undefined)>> >>,
     << <<"name", Str("a")>>, <<"category_id", Command(Str("create"), Undefined, ValueObj1)>> >>,
     << <<"category_id", Command(Str("replace"), Num(3), Undefined)>>,
        <<"child_ids", Command(Str("add"), Undefined, Undefined)>> >>}

Models == {"res.partner"}
RecordIdArgs == {Num(9), Arr(<<Num(9), Num(4)>>)}
BoundRecordIds == {Num(9)}
ExternalIds == {Str("ext-1"), Str("ext-2")}
ModuleNameArgs == {Undefined, Str("base")}
FieldsArgs == {Arr(<<>>), Arr(<<Str("name")>>)}

\* filter triples
Triple(field, op, value) == Arr(<<Str(field), Str(op), value>>)

\* domains as the documentation and the tests give them: left out, a mapping
\* (empty or not), one filter triple, a list of filter triples
DomainArgs ==
    {Undefined,
     Obj(<<>>),
     Obj(<< <<"country_id", Str("United States")>> >>),
     Obj(<< <<"a", Num(1)>>, <<"b", Str("x")>> >>),
     Triple("name", "=", Str("john")),
     Arr(<<Triple("a", "=", Num(1)), Triple("b", "<", Num(5))>>),
     Arr(<<>>)}

\* arrays that are neither a filter triple nor a list of filter triples
MalformedDomainArgs ==
    {Arr(<<Num(5), Num(6)>>),
     Arr(<<Str("name"), Str("=")>>),
     Arr(<<Str("name"), Str("="), Str("john"), Str("x")>>),
     Arr(<<Null>>)}

\* values that are neither mapping nor array
OtherDomainArgs == {Null, Num(0), Num(5), Bool(TRUE)}

\* options: left out, all three keys, some of the keys, none of them
OptsArgs ==
    {Undefined,
     Obj(<< <<"offset", Num(10)>>, <<"limit", Num(5)>>, <<"order", Str("name, desc")>> >>),
     Obj(<< <<"limit", Num(10)>>, <<"offset", Num(20)>> >>),
     Obj(<< <<"order", Str("name desc")>> >>),
     Obj(<<>>)}

\* the arguments the whole client is run on
FewDomainArgs == {Obj(<< <<"country_id", Str("United States")>> >>),
                  Triple("name", "=", Str("john"))}
FewOptsArgs == {Undefined}

\* getFields: attributes left out or given
AttributesArgs == {Undefined, Arr(<<Str("type"), Str("required")>>)}

\* direct calls of execute_kw: the method and the params array the caller builds
DirectMethods == {"read", "unlink"}
ParamsArgs == {<< Arr(<<Num(9)>>) >>}

-----------------------------------------------------------------------------
(* The gateway and the backend behind it *)

\* what the gateway reports when a call fails: a transport error or a
\* backend fault
Faults == {[t |-> "fault", faultString |-> "ECONNREFUSED"],
           [t |-> "fault", faultString |-> "Access Denied"]}

\* a[0], a[i]: undefined past the end
At(a, i) == IF IsArray(a) /\ i + 1 <= Len(a.items) THEN a.items[i + 1] ELSE Undefined

\* a row of ir.model.data as the backend stores it
IrRow(id, vals) ==
    Obj(<< <<"id", Num(id)>>, <<"model", Get(vals, "model")>>, <<"name", Get(vals, "name")>>,
           <<"res_id", Get(vals, "res_id")>>, <<"module", Get(vals, "module")>> >>)

\* whether a stored row satisfies a domain: the conjunction of its '=' triples
Matches(row, domain) ==
    \A i \in 1..Len(domain.items) :
        LET triple == domain.items[i] IN
        /\ IsArray(triple) /\ Len(triple.items) = 3
        /\ triple.items[1].t = "string"
        /\ triple.items[2] = Str("=")
        /\ Get(row, triple.items[1].s) = triple.items[3]

RECURSIVE SelectRows(_, _)
SelectRows(rows, domain) ==
    IF rows = <<>> THEN <<>>
    ELSE IF Matches(rows[1], domain)
         THEN <<rows[1]>> \o SelectRows(Tail(rows), domain)
         ELSE SelectRows(Tail(rows), domain)

\* the id and the requested fields of a row
Project(row, fields) ==
    Obj(<< <<"id", Get(row, "id")>> >> \o
        [i \in 1..Len(fields.items) |-> <<fields.items[i].s, Get(row, fields.items[i].s)>>])

\* the record the backend returns for an id
Record(id) == Obj(<< <<"id", id>> >>)

\* The record and the many2many field whose id set the backend model keeps:
\* the partner and the category_id of the relation tests.
RelatedRecord == Num(7)
RelatedField == "category_id"

\* the ids of a list of numbers
IdSet(items) == {items[i].n : i \in 1..Len(items)}

\* a set of ids as the list a read returns, ascending
RECURSIVE IdList(_)
IdList(S) ==
    IF S = {} THEN <<>>
    ELSE LET least == CHOOSE x \in S : \A y \in S : x <= y
         IN  <<Num(least)>> \o IdList(S \ {least})

\* one command tuple applied to an id set: [2,id,0] and [3,id,0] take id
\* out, [4,id,0] puts it in, [5,0,0] empties the set, [6,0,ids] replaces it;
\* the records that [0,0,values] creates and [1,id,values] updates are not
\* followed
ApplyTuple(S, tuple) ==
    LET tag == At(tuple, 0) IN
    CASE tag \in {Num(2), Num(3)} -> S \ {At(tuple, 1).n}
      [] tag = Num(4) -> S \cup {At(tuple, 1).n}
      [] tag = Num(5) -> {}
      [] tag = Num(6) -> IdSet(At(tuple, 2).items)
      [] OTHER -> S

RECURSIVE ApplyTuples(_, _)
ApplyTuples(S, tuples) ==
    IF tuples = <<>> THEN S
    ELSE ApplyTuples(ApplyTuple(S, tuples[1]), Tail(tuples))

\* a written value applied to an id set: a list of ids is the new set, a
\* list of command tuples is applied in order
Written(S, value) ==
    IF ~IsArray(value) THEN S
    ELSE IF value.items # <<>> /\ \A i \in 1..Len(value.items) : value.items[i].t = "number"
         THEN IdSet(value.items)
         ELSE ApplyTuples(S, value.items)

\* the record the backend returns for an id and the fields asked for
RecordOf(id, fields) ==
    IF id = RelatedRecord /\ IsArray(fields)
       /\ \E i \in 1..Len(fields.items) : fields.items[i] = Str(RelatedField)
    THEN Obj(<< <<"id", id>>, <<RelatedField, Arr(IdList(related))>> >>)
    ELSE Record(id)

\* What the backend answers to an execute_kw call, and its state afterwards.
\* ir.model.data is a stored table; the other models answer any of a few
\* values.
BackendResults(c) ==
    LET m == callModel(c)
        method == callMethod(c)
        args == callArgs(c)
        same(r) == {[resp |-> r, irData |-> irData, nextId |-> nextId, related |-> related]}
    IN
    CASE method = "create" ->
            {[resp |-> Num(nextId),
              irData |-> IF m = IrModelData
                         THEN Append(irData, IrRow(nextId, At(args[1], 0)))
                         ELSE irData,
              nextId |-> nextId + 1,
              related |-> related]}
      [] method = "search_read" /\ m = IrModelData ->
            LET rows == SelectRows(irData, At(args[1], 0))
                fields == Get(args[2], "fields")
            IN  same(Arr([i \in 1..Len(rows) |-> Project(rows[i], fields)]))
      [] method = "write" ->
            LET ids == At(args[1], 0)
                vals == At(args[1], 1)
                touched == \/ ids = RelatedRecord
                           \/ IsArray(ids) /\ \E i \in 1..Len(ids.items) : ids.items[i] = RelatedRecord
                new == IF touched /\ HasKey(vals, RelatedField)
                       THEN Written(related, Get(vals, RelatedField))
                       ELSE related
            IN  {[resp |-> Bool(b), irData |-> irData, nextId |-> nextId, related |-> new] :
                    b \in BOOLEAN}
      [] method = "unlink" ->
            same(Bool(TRUE)) \cup same(Bool(FALSE))
      [] method = "read" ->
            LET ids == At(args[1], 0) IN
            IF IsArray(ids)
            THEN same(Arr(<<>>))
                 \cup same(Arr([i \in 1..Len(ids.items) |->
                                  RecordOf(ids.items[i],
                                           IF Len(args) > 1 THEN Get(args[2], "fields")
                                           ELSE Undefined)]))
            ELSE {}
      [] method = "fields_get" ->
            same(Obj(<< <<"name", Obj(<< <<"type", Str("char")>> >>)>> >>))
      [] method = "search" ->
            same(Arr(<<>>)) \cup same(Arr(<<Num(9), Num(4)>>))
      [] method = "search_read" ->
            same(Arr(<<>>)) \cup same(Arr(<<Record(Num(9))>>))
      [] OTHER -> same(Arr(<<>>))

\* the (err, resp) pairs the gateway may call back with
Replies(c) ==
    {[ok |-> FALSE, value |-> f, irData |-> irData, nextId |-> nextId, related |-> related] :
        f \in Faults}
    \cup {[ok |-> TRUE, value |-> r.resp, irData |-> r.irData, nextId |-> r.nextId,
           related |-> r.related] : r \in BackendResults(c)}

-----------------------------------------------------------------------------
(* Steps shared by the operations *)

\* a || b
Or(a, b) == IF Truthy(a) THEN a ELSE b

\* `${v}` : the string a template literal makes of v
ToStr(v) ==
    CASE v.t = "string" -> v
      [] v.t = "undefined" -> Str("undefined")
      [] v.t = "null" -> Str("null")
      [] v.t = "boolean" -> IF v.b THEN Str("true") ELSE Str("false")
      [] OTHER -> Str("[object]")

\* the operation is called: its arguments, the caller's field map
Started(p, c, h) ==
    /\ CanStart(p)
    /\ call' = [call EXCEPT ![p] = c]
    /\ heap' = [heap EXCEPT ![p] = h]
    /\ nops' = nops + 1

\* the operation's promise settles
Settle(p, o) ==
    /\ pc' = [pc EXCEPT ![p] = "done"]
    /\ outcome' = [outcome EXCEPT ![p] = o]

\* Returned failing with an error of the client's own making
Returned_Wrapped(p, reply) ==
    IF reply.ok THEN Settle(p, Fulfilled(reply.value))
    ELSE Settle(p, Rejected(Error(<<"RPC call failed">>)))

\* return await this.execute_kw(...): the reply is the operation's outcome
Returned(p, reply) ==
    IF reply.ok THEN Settle(p, Fulfilled(reply.value)) ELSE Settle(p, Rejected(reply.value))

\* the operation issues c and suspends at label
Await(p, label, c, first) ==
    /\ pc' = [pc EXCEPT ![p] = label]
    /\ sent' = [sent EXCEPT ![p] = IF first THEN <<c>> ELSE Append(@, c)]
    /\ outcome' = [outcome EXCEPT ![p] = Pending]

\* the gateway calls back with reply: the backend has moved, and the
\* operation has one more reply
Received(p, reply) ==
    /\ irData' = reply.irData
    /\ nextId' = reply.nextId
    /\ related' = reply.related
    /\ bindings' =
         IF reply.ok /\ callModel(InFlight(p)) = IrModelData /\ callMethod(InFlight(p)) = "create"
         THEN Append(bindings,
                     [externalId |-> call[p].externalId,
                      recordId |-> IF call[p].op = "create" THEN local[p].recordId
                                   ELSE call[p].recordId,
                      moduleName |-> call[p].moduleName,
                      entry |-> reply.value])
         ELSE bindings

Noted(p, reply, rest) ==
    [rest EXCEPT !.replies = Append(@, [ok |-> reply.ok, value |-> reply.value])]

-----------------------------------------------------------------------------
(* Calls the operations build *)

\* Object.entries(v)
IndexKey(i) == CASE i = 1 -> "0" [] i = 2 -> "1" [] i = 3 -> "2" [] OTHER -> "3"
Entries(v) ==
    CASE v.t = "object" -> v.ents
      [] v.t = "array" -> [i \in 1..Len(v.items) |-> <<IndexKey(i), v.items[i]>>]
      [] OTHER -> <<>>

\* searchReadDomain passing a single triple on as it is
searchReadDomain_Unwrapped(domain) ==
    IF Truthy(domain)
    THEN IF IsArray(domain)
         THEN domain
         ELSE Arr([i \in 1..Len(Entries(domain)) |->
                     Arr(<<Str(Entries(domain)[i][1]), Str("="), Entries(domain)[i][2]>>)])
    ELSE Arr(<<>>)

\* searchRead's domainArray
searchReadDomain(domain) ==
    IF Truthy(domain)
    THEN IF IsArray(domain) /\ At(domain, 0).t = "string"
         THEN Arr(<<domain>>)
         ELSE IF IsArray(domain) /\ IsArray(At(domain, 0))
              THEN domain
              ELSE Arr([i \in 1..Len(Entries(domain)) |->
                          Arr(<<Str(Entries(domain)[i][1]), Str("="), Entries(domain)[i][2]>>)])
    ELSE Arr(<<>>)

\* searchDomain with no branch for mappings
searchDomain_ArraysOnly(domain) ==
    IF IsArray(domain)
    THEN IF At(domain, 0).t = "string" THEN Arr(<<domain>>) ELSE domain
    ELSE Arr(<<>>)

\* search's domainArray
searchDomain(domain) ==
    IF Truthy(domain)
    THEN IF IsArray(domain) /\ At(domain, 0).t = "string"
         THEN Arr(<<domain>>)
         ELSE IF IsArray(domain) /\ IsArray(At(domain, 0))
              THEN domain
              ELSE Arr([i \in 1..Len(Entries(domain)) |->
                          Arr(<<Str(Entries(domain)[i][1]), Str("="), Entries(domain)[i][2]>>)])
    ELSE Arr(<<>>)

\* search passing the triple list as the first positional argument itself
search_Flat(model, domain) ==
    execute_kw(model, "search", << searchDomain(domain) >>)

\* the call search(model, domain) issues
search(model, domain) ==
    execute_kw(model, "search", << Arr(<<searchDomain(domain)>>) >>)

\* a parameter's default initializer: it applies when the argument is undefined
Default(arg, init) == IF arg = Undefined THEN init ELSE arg

DefaultOpts == Obj(<< <<"offset", Num(0)>>, <<"limit", Num(0)>>, <<"order", Str("")>> >>)

\* the call searchRead(model, domain, fields, opts) issues
searchRead(model, domain, fields, opts) ==
    execute_kw(model, "search_read",
               << Arr(<<searchReadDomain(domain)>>),
                  Obj(<< <<"fields", fields>>, <<"offset", Get(opts, "offset")>>,
                         <<"limit", Get(opts, "limit")>>, <<"order", Get(opts, "order")>> >>) >>)

\* the call createExternalId(model, recordId, externalId, moduleName) issues
createExternalId(model, recordId, externalId, moduleName) ==
    execute_kw(IrModelData, "create",
               << Arr(<< Obj(<< <<"model", model>>, <<"name", ToStr(externalId)>>,
                                <<"res_id", recordId>>,
                                <<"module", Or(moduleName, Str(DefaultModule))>> >>) >>) >>)

\* read sending the field restriction whatever fields is
read_AlwaysFields(model, recordId, fields) ==
    execute_kw(model, "read",
               << Arr(<< IF IsArray(recordId) THEN recordId ELSE Arr(<<recordId>>) >>),
                  Obj(<< <<"fields", fields>> >>) >>)

\* the call read(model, recordId, fields) issues
read(model, recordId, fields) ==
    execute_kw(model, "read",
               << Arr(<< IF IsArray(recordId) THEN recordId ELSE Arr(<<recordId>>) >>) >>
               \o (IF Len(fields.items) # 0
                   THEN << Obj(<< <<"fields", fields>> >>) >>
                   ELSE <<>>))

\* lookup filtering on the default module as well
lookup_DefaultModule(externalId, fields) ==
    searchRead(IrModelData,
               Obj(<< <<"name", externalId>>, <<"module", Str(DefaultModule)>> >>),
               fields, DefaultOpts)

\* the lookup the *ByExternalId operations start with
lookup(externalId, fields) ==
    searchRead(IrModelData, Obj(<< <<"name", externalId>> >>), fields, DefaultOpts)

\* LookupMiss with a message that leaves the id out
LookupMiss_NoId(text, externalId) == Error(<<text>>)
LookupMiss(text, externalId) == Error(<<text, ToStr(externalId).s>>)

-----------------------------------------------------------------------------
(* connect *)

Connect(p) ==
    /\ Started(p, [NoCall EXCEPT !.op = "connect"], HeapOf(<<>>))
    /\ local' = [local EXCEPT ![p] = NoLocal]
    /\ Await(p, "connect:63",
             [method |-> "authenticate",
              params |-> <<Str(db), Str(username), Str(password), Obj(<<>>)>>], TRUE)
    /\ UNCHANGED <<uid, irData, nextId, related, bindings>>

\* what authenticate answers: a fault, false for bad credentials, the id the
\* backend has for the user at the time
AuthReplies ==
    {[ok |-> FALSE, value |-> f] : f \in Faults}
    \cup {[ok |-> TRUE, value |-> Bool(FALSE)], [ok |-> TRUE, value |-> Num(2)],
          [ok |-> TRUE, value |-> Num(7)]}

\* connect storing what authenticate answered before it looks at it
ConnectResume63_StoreFirst(p) ==
    /\ pc[p] = "connect:63"
    /\ \E reply \in AuthReplies :
        /\ local' = [local EXCEPT ![p] = Noted(p, reply, @)]
        /\ IF ~reply.ok
           THEN Settle(p, Rejected(reply.value)) /\ UNCHANGED uid
           ELSE /\ uid' = reply.value
                /\ IF ~Truthy(reply.value)
                   THEN Settle(p, Rejected(Str("Error connecting to database. This is probably due to invalid credentials.")))
                   ELSE Settle(p, Fulfilled(reply.value))
    /\ UNCHANGED <<call, heap, sent, irData, nextId, related, bindings, nops>>

ConnectResume63(p) ==
    /\ pc[p] = "connect:63"
    /\ \E reply \in AuthReplies :
        /\ local' = [local EXCEPT ![p] = Noted(p, reply, @)]
        /\ IF ~reply.ok
           THEN Settle(p, Rejected(reply.value)) /\ UNCHANGED uid
           ELSE IF ~Truthy(reply.value)
                THEN /\ Settle(p, Rejected(Str("Error connecting to database. This is probably due to invalid credentials.")))
                     /\ UNCHANGED uid
                ELSE /\ uid' = reply.value
                     /\ Settle(p, Fulfilled(reply.value))
    /\ UNCHANGED <<call, heap, sent, irData, nextId, related, bindings, nops>>

-----------------------------------------------------------------------------
(* create *)

Create(p, model, ents, externalId, moduleName) ==
    LET r == parseManyFields(ents) IN
    /\ Started(p, [NoCall EXCEPT !.op = "create", !.model = model, !.params = ents,
                                 !.externalId = externalId, !.moduleName = moduleName],
               r.heap)
    /\ local' = [local EXCEPT ![p] = NoLocal]
    /\ IF r.threw
       THEN Settle(p, Rejected(r.err)) /\ sent' = [sent EXCEPT ![p] = <<>>]
       ELSE Await(p, "create:178",
                  execute_kw(model, "create", << Arr(<<Obj(r.heap.params)>>) >>), TRUE)
    /\ UNCHANGED <<uid, irData, nextId, related, bindings>>

\* create keeping the new record's id in a field of the client, for every
\* create in flight to read
CreateResume178_SharedId(p) ==
    /\ pc[p] = "create:178"
    /\ \E reply \in Replies(InFlight(p)) :
        /\ Received(p, reply)
        /\ local' = [q \in Procs |->
                       IF q = p
                       THEN Noted(p, reply, IF reply.ok THEN [local[p] EXCEPT !.recordId = reply.value]
                                            ELSE local[p])
                       ELSE IF reply.ok THEN [local[q] EXCEPT !.recordId = reply.value]
                            ELSE local[q]]
        /\ IF ~reply.ok
           THEN Settle(p, Rejected(reply.value)) /\ UNCHANGED sent
           ELSE IF Truthy(call[p].externalId)
                THEN Await(p, "create:182",
                           createExternalId(Str(call[p].model), reply.value, call[p].externalId,
                                            Or(call[p].moduleName, Str(DefaultModule))),
                           FALSE)
                ELSE Settle(p, Fulfilled(reply.value)) /\ UNCHANGED sent
    /\ UNCHANGED <<uid, call, heap, nops>>

CreateResume178(p) ==
    /\ pc[p] = "create:178"
    /\ \E reply \in Replies(InFlight(p)) :
        /\ Received(p, reply)
        /\ local' = [local EXCEPT ![p] =
                       Noted(p, reply, IF reply.ok THEN [@ EXCEPT !.recordId = reply.value] ELSE @)]
        /\ IF ~reply.ok
           THEN Settle(p, Rejected(reply.value)) /\ UNCHANGED sent
           ELSE IF Truthy(call[p].externalId)
                THEN Await(p, "create:182",
                           createExternalId(Str(call[p].model), reply.value, call[p].externalId,
                                            Or(call[p].moduleName, Str(DefaultModule))),
                           FALSE)
                ELSE Settle(p, Fulfilled(reply.value)) /\ UNCHANGED sent
    /\ UNCHANGED <<uid, call, heap, nops>>

\* CreateResume182 returning the id of the ir.model.data entry
CreateResume182_EntryId(p) ==
    /\ pc[p] = "create:182"
    /\ \E reply \in Replies(InFlight(p)) :
        /\ Received(p, reply)
        /\ local' = [local EXCEPT ![p] = Noted(p, reply, @)]
        /\ Returned(p, reply)
    /\ UNCHANGED <<uid, call, heap, sent, nops>>

\* CreateResume182 returning the record id although the bind call failed
CreateResume182_Swallow(p) ==
    /\ pc[p] = "create:182"
    /\ \E reply \in Replies(InFlight(p)) :
        /\ Received(p, reply)
        /\ local' = [local EXCEPT ![p] = Noted(p, reply, @)]
        /\ Settle(p, Fulfilled(local[p].recordId))
    /\ UNCHANGED <<uid, call, heap, sent, nops>>

CreateResume182(p) ==
    /\ pc[p] = "create:182"
    /\ \E reply \in Replies(InFlight(p)) :
        /\ Received(p, reply)
        /\ local' = [local EXCEPT ![p] = Noted(p, reply, @)]
        /\ IF ~reply.ok
           THEN Settle(p, Rejected(reply.value))
           ELSE Settle(p, Fulfilled(local[p].recordId))
    /\ UNCHANGED <<uid, call, heap, sent, nops>>

-----------------------------------------------------------------------------
(* read, update, delete *)

Read(p, model, recordId, fields) ==
    /\ Started(p, [NoCall EXCEPT !.op = "read", !.model = model, !.recordId = recordId,
                                 !.fields = fields], HeapOf(<<>>))
    /\ local' = [local EXCEPT ![p] = NoLocal]
    /\ Await(p, "read:203", read(model, recordId, Default(fields, Arr(<<>>))), TRUE)
    /\ UNCHANGED <<uid, irData, nextId, related, bindings>>

ReadResume203(p) ==
    /\ pc[p] = "read:203"
    /\ \E reply \in Replies(InFlight(p)) :
        /\ Received(p, reply)
        /\ local' = [local EXCEPT ![p] = Noted(p, reply, @)]
        /\ Returned(p, reply)
    /\ UNCHANGED <<uid, call, heap, sent, nops>>

\* update sending the field map as the caller gave it
Update_RawFields(p, model, recordId, ents) ==
    LET r == parseManyFields(ents) IN
    /\ Started(p, [NoCall EXCEPT !.op = "update", !.model = model, !.recordId = recordId,
                                 !.params = ents], r.heap)
    /\ local' = [local EXCEPT ![p] = NoLocal]
    /\ IF r.threw
       THEN Settle(p, Rejected(r.err)) /\ sent' = [sent EXCEPT ![p] = <<>>]
       ELSE Await(p, "update:221",
                  execute_kw(model, "write", << Arr(<<recordId, Obj(ents)>>) >>), TRUE)
    /\ UNCHANGED <<uid, irData, nextId, related, bindings>>

Update(p, model, recordId, ents) ==
    LET r == parseManyFields(ents) IN
    /\ Started(p, [NoCall EXCEPT !.op = "update", !.model = model, !.recordId = recordId,
                                 !.params = ents], r.heap)
    /\ local' = [local EXCEPT ![p] = NoLocal]
    /\ IF r.threw
       THEN Settle(p, Rejected(r.err)) /\ sent' = [sent EXCEPT ![p] = <<>>]
       ELSE Await(p, "update:221",
                  execute_kw(model, "write", << Arr(<<recordId, Obj(r.heap.params)>>) >>), TRUE)
    /\ UNCHANGED <<uid, irData, nextId, related, bindings>>

UpdateResume221(p) ==
    /\ pc[p] = "update:221"
    /\ \E reply \in Replies(InFlight(p)) :
        /\ Received(p, reply)
        /\ local' = [local EXCEPT ![p] = Noted(p, reply, @)]
        /\ Returned(p, reply)
    /\ UNCHANGED <<uid, call, heap, sent, nops>>

Delete(p, model, recordId) ==
    /\ Started(p, [NoCall EXCEPT !.op = "delete", !.model = model, !.recordId = recordId],
               HeapOf(<<>>))
    /\ local' = [local EXCEPT ![p] = NoLocal]
    /\ Await(p, "delete:233", execute_kw(model, "unlink", << Arr(<<recordId>>) >>), TRUE)
    /\ UNCHANGED <<uid, irData, nextId, related, bindings>>

\* delete returning the reply of its unlink
DeleteResume233_Reply(p) ==
    /\ pc[p] = "delete:233"
    /\ \E reply \in Replies(InFlight(p)) :
        /\ Received(p, reply)
        /\ local' = [local EXCEPT ![p] = Noted(p, reply, @)]
        /\ Returned(p, reply)
    /\ UNCHANGED <<uid, call, heap, sent, nops>>

DeleteResume233(p) ==
    /\ pc[p] = "delete:233"
    /\ \E reply \in Replies(InFlight(p)) :
        /\ Received(p, reply)
        /\ local' = [local EXCEPT ![p] = Noted(p, reply, @)]
        /\ IF reply.ok
           THEN Settle(p, Fulfilled(Bool(TRUE)))
           ELSE Settle(p, Rejected(reply.value))
    /\ UNCHANGED <<uid, call, heap, sent, nops>>

-----------------------------------------------------------------------------
(* searchRead, search *)

SearchRead(p, model, domain, fields, opts) ==
    /\ Started(p, [NoCall EXCEPT !.op = "searchRead", !.model = model, !.domain = domain,
                                 !.fields = fields, !.opts = opts], HeapOf(<<>>))
    /\ local' = [local EXCEPT ![p] = NoLocal]
    /\ Await(p, "searchRead:273",
             searchRead(model, domain, Default(fields, Arr(<<>>)), Default(opts, DefaultOpts)),
             TRUE)
    /\ UNCHANGED <<uid, irData, nextId, related, bindings>>

SearchReadResume273(p) ==
    /\ pc[p] = "searchRead:273"
    /\ \E reply \in Replies(InFlight(p)) :
        /\ Received(p, reply)
        /\ local' = [local EXCEPT ![p] = Noted(p, reply, @)]
        /\ Returned(p, reply)
    /\ UNCHANGED <<uid, call, heap, sent, nops>>

Search(p, model, domain) ==
    /\ Started(p, [NoCall EXCEPT !.op = "search", !.model = model, !.domain = domain],
               HeapOf(<<>>))
    /\ local' = [local EXCEPT ![p] = NoLocal]
    /\ Await(p, "search:310", search(model, domain), TRUE)
    /\ UNCHANGED <<uid, irData, nextId, related, bindings>>

\* search keeping the first id it found as the session's user id
SearchResume310_StoresUid(p) ==
    /\ pc[p] = "search:310"
    /\ \E reply \in Replies(InFlight(p)) :
        /\ Received(p, reply)
        /\ local' = [local EXCEPT ![p] = Noted(p, reply, @)]
        /\ Returned(p, reply)
        /\ uid' = IF reply.ok /\ Truthy(At(reply.value, 0)) THEN At(reply.value, 0) ELSE uid
    /\ UNCHANGED <<call, heap, sent, nops>>

SearchResume310(p) ==
    /\ pc[p] = "search:310"
    /\ \E reply \in Replies(InFlight(p)) :
        /\ Received(p, reply)
        /\ local' = [local EXCEPT ![p] = Noted(p, reply, @)]
        /\ Returned(p, reply)
    /\ UNCHANGED <<uid, call, heap, sent, nops>>

-----------------------------------------------------------------------------
(* getFields, execute_kw *)

GetFields(p, model, attributes) ==
    /\ Started(p, [NoCall EXCEPT !.op = "getFields", !.model = model, !.fields = attributes],
               HeapOf(<<>>))
    /\ local' = [local EXCEPT ![p] = NoLocal]
    /\ Await(p, "getFields:322",
             execute_kw(model, "fields_get",
                        << Arr(<<>>),
                           Obj(<< <<"attributes", Default(attributes, Arr(<<>>))>> >>) >>),
             TRUE)
    /\ UNCHANGED <<uid, irData, nextId, related, bindings>>

GetFieldsResume322(p) ==
    /\ pc[p] = "getFields:322"
    /\ \E reply \in Replies(InFlight(p)) :
        /\ Received(p, reply)
        /\ local' = [local EXCEPT ![p] = Noted(p, reply, @)]
        /\ Returned(p, reply)
    /\ UNCHANGED <<uid, call, heap, sent, nops>>

\* A caller calls execute_kw itself, with a params array it has built, or,
\* again, with the array it passed to its previous execute_kw.  call[p].params
\* is the array as the caller built it, heap[p].params the array as it is:
\* params.unshift(...) writes into the caller's array, and methodCall is
\* given that same array.
ExecuteKw(p, model, method, params, again) ==
    LET built == IF again THEN call[p].params ELSE params
        array == IF again THEN heap[p].params ELSE params
        c == execute_kw(model, method, array)
    IN
    /\ again => call[p].op = "execute_kw"
    /\ Started(p, [NoCall EXCEPT !.op = "execute_kw", !.model = model, !.method = method,
                                 !.params = built],
               [params |-> c.params, objs |-> <<>>])
    /\ local' = [local EXCEPT ![p] = NoLocal]
    /\ Await(p, "execute_kw:102", c, TRUE)
    /\ UNCHANGED <<uid, irData, nextId, related, bindings>>

ExecuteKwResume102(p) ==
    /\ pc[p] = "execute_kw:102"
    /\ \E reply \in Replies(InFlight(p)) :
        /\ Received(p, reply)
        /\ local' = [local EXCEPT ![p] = Noted(p, reply, @)]
        /\ Returned(p, reply)
    /\ UNCHANGED <<uid, call, heap, sent, nops>>

-----------------------------------------------------------------------------
(* The external-identifier operations *)

CreateExternalId(p, model, recordId, externalId, moduleName) ==
    /\ Started(p, [NoCall EXCEPT !.op = "createExternalId", !.model = model,
                                 !.recordId = recordId, !.externalId = externalId,
                                 !.moduleName = moduleName], HeapOf(<<>>))
    /\ local' = [local EXCEPT ![p] = NoLocal]
    /\ Await(p, "createExternalId:348",
             createExternalId(Str(model), recordId, externalId, moduleName), TRUE)
    /\ UNCHANGED <<uid, irData, nextId, related, bindings>>

CreateExternalIdResume348(p) ==
    /\ pc[p] = "createExternalId:348"
    /\ \E reply \in Replies(InFlight(p)) :
        /\ Received(p, reply)
        /\ local' = [local EXCEPT ![p] = Noted(p, reply, @)]
        /\ Returned(p, reply)
    /\ UNCHANGED <<uid, call, heap, sent, nops>>

SearchByExternalId(p, externalId) ==
    /\ Started(p, [NoCall EXCEPT !.op = "searchByExternalId", !.externalId = externalId],
               HeapOf(<<>>))
    /\ local' = [local EXCEPT ![p] = NoLocal]
    /\ Await(p, "searchByExternalId:365", lookup(externalId, Arr(<<Str("res_id")>>)), TRUE)
    /\ UNCHANGED <<uid, irData, nextId, related, bindings>>

\* SearchByExternalIdResume365 returning the id of the ir.model.data row
SearchByExternalIdResume365_RowId(p) ==
    /\ pc[p] = "searchByExternalId:365"
    /\ \E reply \in Replies(InFlight(p)) :
        /\ Received(p, reply)
        /\ local' = [local EXCEPT ![p] =
                       Noted(p, reply, IF reply.ok THEN [@ EXCEPT !.irModelData = reply.value] ELSE @)]
        /\ IF ~reply.ok
           THEN Settle(p, Rejected(reply.value))
           ELSE IF Len(reply.value.items) = 0
                THEN Settle(p, Rejected(LookupMiss("No matching record found for external identifier ",
                                                   call[p].externalId)))
                ELSE Settle(p, Fulfilled(Get(At(reply.value, 0), "id")))
    /\ UNCHANGED <<uid, call, heap, sent, nops>>

SearchByExternalIdResume365(p) ==
    /\ pc[p] = "searchByExternalId:365"
    /\ \E reply \in Replies(InFlight(p)) :
        /\ Received(p, reply)
        /\ local' = [local EXCEPT ![p] =
                       Noted(p, reply, IF reply.ok THEN [@ EXCEPT !.irModelData = reply.value] ELSE @)]
        /\ IF ~reply.ok
           THEN Settle(p, Rejected(reply.value))
           ELSE IF Len(reply.value.items) = 0
                THEN Settle(p, Rejected(LookupMiss("No matching record found for external identifier ",
                                                   call[p].externalId)))
                ELSE Settle(p, Fulfilled(Get(At(reply.value, 0), "res_id")))
    /\ UNCHANGED <<uid, call, heap, sent, nops>>

ReadByExternalId(p, externalId, fields) ==
    /\ Started(p, [NoCall EXCEPT !.op = "readByExternalId", !.externalId = externalId,
                                 !.fields = fields], HeapOf(<<>>))
    /\ local' = [local EXCEPT ![p] = NoLocal]
    /\ Await(p, "readByExternalId:379",
             lookup(externalId, Arr(<<Str("res_id"), Str("model")>>)), TRUE)
    /\ UNCHANGED <<uid, irData, nextId, related, bindings>>

ReadByExternalIdResume379(p) ==
    /\ pc[p] = "readByExternalId:379"
    /\ \E reply \in Replies(InFlight(p)) :
        /\ Received(p, reply)
        /\ local' = [local EXCEPT ![p] =
                       Noted(p, reply, IF reply.ok THEN [@ EXCEPT !.irModelData = reply.value] ELSE @)]
        /\ IF ~reply.ok
           THEN Settle(p, Rejected(reply.value)) /\ UNCHANGED sent
           ELSE IF Len(reply.value.items) = 0
                THEN /\ Settle(p, Rejected(LookupMiss("No matching record found for external identifier ",
                                                      call[p].externalId)))
                     /\ UNCHANGED sent
                ELSE Await(p, "readByExternalId:383",
                           read(Get(At(reply.value, 0), "model").s,
                                Arr(<<Get(At(reply.value, 0), "res_id")>>), call[p].fields),
                           FALSE)
    /\ UNCHANGED <<uid, call, heap, nops>>

ReadByExternalIdResume383(p) ==
    /\ pc[p] = "readByExternalId:383"
    /\ \E reply \in Replies(InFlight(p)) :
        /\ Received(p, reply)
        /\ local' = [local EXCEPT ![p] = Noted(p, reply, @)]
        /\ IF reply.ok
           THEN Settle(p, Fulfilled(At(reply.value, 0)))
           ELSE Settle(p, Rejected(reply.value))
    /\ UNCHANGED <<uid, call, heap, sent, nops>>

UpdateByExternalId(p, externalId, ents) ==
    /\ Started(p, [NoCall EXCEPT !.op = "updateByExternalId", !.externalId = externalId,
                                 !.params = ents], HeapOf(ents))
    /\ local' = [local EXCEPT ![p] = NoLocal]
    /\ Await(p, "updateByExternalId:393",
             lookup(externalId, Arr(<<Str("res_id"), Str("model")>>)), TRUE)
    /\ UNCHANGED <<uid, irData, nextId, related, bindings>>

\* the lookup resolves; update(model, res_id, params) runs up to its write
UpdateByExternalIdResume393(p) ==
    /\ pc[p] = "updateByExternalId:393"
    /\ \E reply \in Replies(InFlight(p)) :
        /\ Received(p, reply)
        /\ local' = [local EXCEPT ![p] =
                       Noted(p, reply, IF reply.ok THEN [@ EXCEPT !.irModelData = reply.value] ELSE @)]
        /\ IF ~reply.ok
           THEN Settle(p, Rejected(reply.value)) /\ UNCHANGED <<sent, heap>>
           ELSE IF Len(reply.value.items) = 0
                THEN /\ Settle(p, Rejected(LookupMiss("No matching record found for external identifier ",
                                                      call[p].externalId)))
                     /\ UNCHANGED <<sent, heap>>
                ELSE LET r == parseManyFields(heap[p].params) IN
                     /\ heap' = [heap EXCEPT ![p] = r.heap]
                     /\ IF r.threw
                        THEN Settle(p, Rejected(r.err)) /\ UNCHANGED sent
                        ELSE Await(p, "updateByExternalId:397",
                                   execute_kw(Get(At(reply.value, 0), "model").s, "write",
                                              << Arr(<<Get(At(reply.value, 0), "res_id"),
                                                       Obj(r.heap.params)>>) >>),
                                   FALSE)
    /\ UNCHANGED <<uid, call, nops>>

UpdateByExternalIdResume397(p) ==
    /\ pc[p] = "updateByExternalId:397"
    /\ \E reply \in Replies(InFlight(p)) :
        /\ Received(p, reply)
        /\ local' = [local EXCEPT ![p] = Noted(p, reply, @)]
        /\ Returned(p, reply)
    /\ UNCHANGED <<uid, call, heap, sent, nops>>

DeleteByExternalId(p, externalId) ==
    /\ Started(p, [NoCall EXCEPT !.op = "deleteByExternalId", !.externalId = externalId],
               HeapOf(<<>>))
    /\ local' = [local EXCEPT ![p] = NoLocal]
    /\ Await(p, "deleteByExternalId:406",
             lookup(externalId, Arr(<<Str("res_id"), Str("model")>>)), TRUE)
    /\ UNCHANGED <<uid, irData, nextId, related, bindings>>

\* deleteByExternalId issuing the unlink and, without awaiting it, a read of
\* the record
DeleteByExternalIdResume406_ReadBack(p) ==
    /\ pc[p] = "deleteByExternalId:406"
    /\ \E reply \in Replies(InFlight(p)) :
        /\ Received(p, reply)
        /\ local' = [local EXCEPT ![p] =
                       Noted(p, reply, IF reply.ok THEN [@ EXCEPT !.irModelData = reply.value] ELSE @)]
        /\ IF ~reply.ok
           THEN Settle(p, Rejected(reply.value)) /\ UNCHANGED sent
           ELSE IF Len(reply.value.items) = 0
                THEN /\ Settle(p, Rejected(LookupMiss("No matching record found for external ID ",
                                                      call[p].externalId)))
                     /\ UNCHANGED sent
                ELSE /\ pc' = [pc EXCEPT ![p] = "deleteByExternalId:410"]
                     /\ outcome' = [outcome EXCEPT ![p] = Pending]
                     /\ sent' = [sent EXCEPT ![p] =
                                   @ \o << execute_kw(Get(At(reply.value, 0), "model").s, "unlink",
                                                      << Arr(<<Get(At(reply.value, 0), "res_id")>>) >>),
                                           read(Get(At(reply.value, 0), "model").s,
                                                Get(At(reply.value, 0), "res_id"), Arr(<<>>)) >>]
    /\ UNCHANGED <<uid, call, heap, nops>>

DeleteByExternalIdResume406(p) ==
    /\ pc[p] = "deleteByExternalId:406"
    /\ \E reply \in Replies(InFlight(p)) :
        /\ Received(p, reply)
        /\ local' = [local EXCEPT ![p] =
                       Noted(p, reply, IF reply.ok THEN [@ EXCEPT !.irModelData = reply.value] ELSE @)]
        /\ IF ~reply.ok
           THEN Settle(p, Rejected(reply.value)) /\ UNCHANGED sent
           ELSE IF Len(reply.value.items) = 0
                THEN /\ Settle(p, Rejected(LookupMiss("No matching record found for external ID ",
                                                      call[p].externalId)))
                     /\ UNCHANGED sent
                ELSE Await(p, "deleteByExternalId:410",
                           execute_kw(Get(At(reply.value, 0), "model").s, "unlink",
                                      << Arr(<<Get(At(reply.value, 0), "res_id")>>) >>),
                           FALSE)
    /\ UNCHANGED <<uid, call, heap, nops>>

DeleteByExternalIdResume410(p) ==
    /\ pc[p] = "deleteByExternalId:410"
    /\ \E reply \in Replies(InFlight(p)) :
        /\ Received(p, reply)
        /\ local' = [local EXCEPT ![p] = Noted(p, reply, @)]
        /\ IF reply.ok
           THEN Settle(p, Fulfilled(Bool(TRUE)))
           ELSE Settle(p, Rejected(reply.value))
    /\ UNCHANGED <<uid, call, heap, sent, nops>>

-----------------------------------------------------------------------------
(* The client: a caller calls any operation, the gateway answers any call *)

Operation(p) ==
    \/ Connect(p)
    \/ ConnectResume63(p)
    \/ \E m \in Models, ents \in FieldMaps,
          e \in ExternalIds \cup {Undefined}, mod \in ModuleNameArgs :
            Create(p, m, ents, e, mod)
    \/ CreateResume178(p)
    \/ CreateResume182(p)
    \/ \E m \in Models, id \in RecordIdArgs, f \in FieldsArgs \cup {Undefined} :
            Read(p, m, id, f)
    \/ ReadResume203(p)
    \/ \E m \in Models, id \in RecordIdArgs, ents \in FieldMaps : Update(p, m, id, ents)
    \/ UpdateResume221(p)
    \/ \E m \in Models, id \in RecordIdArgs : Delete(p, m, id)
    \/ DeleteResume233(p)
    \/ \E m \in Models, d \in FewDomainArgs, f \in FieldsArgs, o \in FewOptsArgs :
            SearchRead(p, m, d, f, o)
    \/ SearchReadResume273(p)
    \/ \E m \in Models, d \in FewDomainArgs : Search(p, m, d)
    \/ SearchResume310(p)
    \/ \E m \in Models, a \in AttributesArgs : GetFields(p, m, a)
    \/ GetFieldsResume322(p)
    \/ \E m \in Models, method \in DirectMethods, params \in ParamsArgs, again \in BOOLEAN :
            ExecuteKw(p, m, method, params, again)
    \/ ExecuteKwResume102(p)
    \/ \E m \in Models, id \in BoundRecordIds, e \in ExternalIds, mod \in ModuleNameArgs :
            CreateExternalId(p, m, id, e, mod)
    \/ CreateExternalIdResume348(p)
    \/ \E e \in ExternalIds : SearchByExternalId(p, e)
    \/ SearchByExternalIdResume365(p)
    \/ \E e \in ExternalIds, f \in FieldsArgs : ReadByExternalId(p, e, f)
    \/ ReadByExternalIdResume379(p)
    \/ ReadByExternalIdResume383(p)
    \/ \E e \in ExternalIds, ents \in FieldMaps : UpdateByExternalId(p, e, ents)
    \/ UpdateByExternalIdResume393(p)
    \/ UpdateByExternalIdResume397(p)
    \/ \E e \in ExternalIds : DeleteByExternalId(p, e)
    \/ DeleteByExternalIdResume406(p)
    \/ DeleteByExternalIdResume410(p)

\* one caller that awaits each operation before it calls the next
Sequential == {1}

Next == \E p \in Sequential : Operation(p)

Spec == Init /\ [][Next]_vars

-----------------------------------------------------------------------------
(* A direct call of parseManyFields, the method the encoder is *)

ParseManyFields(p, ents) ==
    LET r == parseManyFields(ents) IN
    /\ pc[p] \in {"idle", "done"}
    /\ pc' = [pc EXCEPT ![p] = "done"]
    /\ call' = [call EXCEPT ![p] = [NoCall EXCEPT !.op = "parseManyFields", !.params = ents]]
    /\ heap' = [heap EXCEPT ![p] = r.heap]
    /\ sent' = [sent EXCEPT ![p] = <<>>]
    /\ local' = [local EXCEPT ![p] = NoLocal]
    /\ outcome' = [outcome EXCEPT ![p] =
                     IF r.threw THEN Rejected(r.err) ELSE Fulfilled(Obj(r.heap.params))]
    /\ UNCHANGED <<uid, irData, nextId, related, bindings, nops>>

EncNext == \E ents \in EncFieldMaps : ParseManyFields(1, ents)

EncSpec == Init /\ [][EncNext]_vars

-----------------------------------------------------------------------------
(* Two callers of one connected client, their operations in flight together *)

\* the client after a connect that stored the user id 2
Connected ==
    /\ uid = Num(2)
    /\ related = {}
    /\ pc = [p \in Procs |-> "idle"]
    /\ call = [p \in Procs |-> NoCall]
    /\ heap = [p \in Procs |-> HeapOf(<<>>)]
    /\ sent = [p \in Procs |-> <<>>]
    /\ local = [p \in Procs |-> NoLocal]
    /\ outcome = [p \in Procs |-> NoOutcome]
    /\ irData = <<>>
    /\ nextId = 42
    /\ bindings = <<>>
    /\ nops = 0

\* the field maps of the concurrent callers, each a map of its own
ConcFieldMaps ==
    {<< <<"name", Str("a")>> >>,
     << <<"category_id", Command(Str("replace"), Num(3), Undefined)>> >>}

Concurrently(p) ==
    \/ \E m \in Models, ents \in ConcFieldMaps, e \in {Undefined, Str("ext-1")} :
            Create(p, m, ents, e, Undefined)
    \/ CreateResume178(p)
    \/ CreateResume182(p)
    \/ \E m \in Models, id \in BoundRecordIds : Read(p, m, id, Arr(<<>>))
    \/ ReadResume203(p)
    \/ \E m \in Models, id \in BoundRecordIds, ents \in ConcFieldMaps : Update(p, m, id, ents)
    \/ UpdateResume221(p)
    \/ \E m \in Models, id \in BoundRecordIds : Delete(p, m, id)
    \/ DeleteResume233(p)
    \/ ReadByExternalId(p, Str("ext-1"), Arr(<<>>))
    \/ ReadByExternalIdResume379(p)
    \/ ReadByExternalIdResume383(p)
    \/ DeleteByExternalId(p, Str("ext-1"))
    \/ DeleteByExternalIdResume406(p)
    \/ DeleteByExternalIdResume410(p)

ConcNext == \E p \in Procs : Concurrently(p)

ConcSpec == Connected /\ [][ConcNext]_vars

-----------------------------------------------------------------------------
(* A relation field written and read back: caller 1 updates the record,     *)
(* caller 2 reads it once the last update has returned                      *)

\* the client connected, the record's relation holding what an earlier
\* create or update left there
RelInit ==
    /\ uid = Num(2)
    /\ related \in {{}, {1, 2}}
    /\ pc = [p \in Procs |-> "idle"]
    /\ call = [p \in Procs |-> NoCall]
    /\ heap = [p \in Procs |-> HeapOf(<<>>)]
    /\ sent = [p \in Procs |-> <<>>]
    /\ local = [p \in Procs |-> NoLocal]
    /\ outcome = [p \in Procs |-> NoOutcome]
    /\ irData = <<>>
    /\ nextId = 42
    /\ bindings = <<>>
    /\ nops = 0

\* the updates of the relation tests
RelFieldMaps ==
    {<< <<"category_id", Arr(<<Num(3)>>)>> >>,
     << <<"category_id", Arr(<<Num(1), Num(2), Num(3)>>)>> >>,
     << <<"category_id", Command(Str("replace"), Arr(<<Num(1), Num(2), Num(3)>>), Undefined)>> >>,
     << <<"category_id", Command(Str("replace"), Num(3), Undefined)>> >>,
     << <<"category_id", Command(Str("clear"), Undefined, Undefined)>> >>,
     << <<"category_id", Command(Str("add"), Num(5), Undefined)>> >>,
     << <<"category_id", Command(Str("remove"), Num(1), Undefined)>> >>,
     << <<"name", Str("a")>>, <<"category_id", Command(Str("replace"), Arr(<<Num(2), Num(1)>>), Undefined)>> >>}

RelNext ==
    \/ \E m \in Models, ents \in RelFieldMaps :
            pc[2] = "idle" /\ Update(1, m, RelatedRecord, ents)
    \/ UpdateResume221(1)
    \/ \E m \in Models, id \in {RelatedRecord, Arr(<<RelatedRecord>>)} :
            /\ pc[2] = "idle" /\ call[1].op = "update" /\ pc[1] = "done"
            /\ Read(2, m, id, Arr(<<Str(RelatedField)>>))
    \/ ReadResume203(2)

RelSpec == RelInit /\ [][RelNext]_vars

-----------------------------------------------------------------------------
(* A caller that passes one field-map object to create and update again:    *)
(* the second call is given the object as the first call left it            *)

\* caller p's last operation was a create or update
Encoded(p) == call[p].op \in {"create", "update"} /\ pc[p] = "done"

Reusing(p) ==
    \/ \E m \in Models, ents \in FieldMaps : Create(p, m, ents, Undefined, Undefined)
    \/ \E m \in Models : Encoded(p) /\ Create(p, m, heap[p].params, Undefined, Undefined)
    \/ CreateResume178(p)
    \/ \E m \in Models, id \in BoundRecordIds, ents \in FieldMaps : Update(p, m, id, ents)
    \/ \E m \in Models, id \in BoundRecordIds :
            Encoded(p) /\ Update(p, m, id, heap[p].params)
    \/ UpdateResume221(p)

ReuseNext == \E p \in Sequential : Reusing(p)

ReuseSpec == Connected /\ [][ReuseNext]_vars

-----------------------------------------------------------------------------
(* The searches alone, on every shape of domain and options *)

Searches(p) ==
    \/ \E m \in Models, d \in DomainArgs \cup MalformedDomainArgs \cup OtherDomainArgs,
          f \in FieldsArgs \cup {Undefined}, o \in OptsArgs :
            SearchRead(p, m, d, f, o)
    \/ SearchReadResume273(p)
    \/ \E m \in Models, d \in DomainArgs \cup MalformedDomainArgs \cup OtherDomainArgs : Search(p, m, d)
    \/ SearchResume310(p)

SearchNext == \E p \in Sequential : Searches(p)

SearchSpec == Init /\ [][SearchNext]_vars

-----------------------------------------------------------------------------
(* Properties of the field encoder *)

Done(p) == pc[p] = "done"

\* a direct call of parseManyFields that returned
Parsed(p) == call[p].op = "parseManyFields" /\ Done(p) /\ outcome[p].status = "fulfilled"

IsRecordId(x) == x.t = "number" /\ x.n > 0
IsIdList(x) == IsArray(x) /\ \A i \in 1..Len(x.items) : IsRecordId(x.items[i])
IsValueObject(x) == x.t = "object"
IsValueList(x) == IsArray(x) /\ \A i \in 1..Len(x.items) : IsValueObject(x.items[i])

ActionOf(v) == Get(v, "action")

\* the relation commands of the README: an action with the id and value it
\* requires, ids being record ids
WellFormed(v) ==
    /\ v.t = "object"
    /\ \/ /\ ActionOf(v) = Str("create")
          /\ IsValueObject(Get(v, "value")) \/ IsValueList(Get(v, "value"))
       \/ /\ ActionOf(v) = Str("update")
          /\ IsRecordId(Get(v, "id")) /\ IsValueObject(Get(v, "value"))
       \/ /\ ActionOf(v) \in {Str("add"), Str("remove"), Str("delete"), Str("replace")}
          /\ IsRecordId(Get(v, "id")) \/ IsIdList(Get(v, "id"))
       \/ ActionOf(v) = Str("clear")

AsList(x) == IF IsArray(x) THEN x.items ELSE <<x>>

\* the backend's command tuples for a well-formed command
CommandTag == [add |-> 4, remove |-> 3, delete |-> 2]
ExpectedTuples(v) ==
    LET a == ActionOf(v).s
        ids == AsList(Get(v, "id"))
        values == AsList(Get(v, "value"))
    IN
    CASE a = "create" ->
            Arr([i \in 1..Len(values) |-> Arr(<<Num(0), Num(0), values[i]>>)])
      [] a = "update" -> Arr(<<Arr(<<Num(1), Get(v, "id"), Get(v, "value")>>)>>)
      [] a \in {"add", "remove", "delete"} ->
            Arr([i \in 1..Len(ids) |-> Arr(<<Num(CommandTag[a]), ids[i], Num(0)>>)])
      [] a = "clear" -> Arr(<<Arr(<<Num(5), Num(0), Num(0)>>)>>)
      [] a = "replace" -> Arr(<<Arr(<<Num(6), Num(0), Arr(ids)>>)>>)

\* C1: when the encoder returns, every field whose value was a well-formed
\* relation command holds exactly the command tuples of that command: one
\* [0,0,obj] per object for create, [[1,id,value]] for update, one [4,id,0] /
\* [3,id,0] / [2,id,0] per id for add / remove / delete, [[5,0,0]] for clear
\* and [[6,0,idList]] for replace, a bare id or object counting as a list of one.
C1_CommandTuples ==
    \A p \in Procs :
        Parsed(p) =>
            \A i \in 1..Len(call[p].params) :
                WellFormed(call[p].params[i][2]) =>
                    heap[p].params[i] =
                        <<call[p].params[i][1], ExpectedTuples(call[p].params[i][2])>>

\* a returned call whose map held an add of two ids, now two tuples
C1_Witness ==
    \E p \in Procs :
        /\ Parsed(p)
        /\ \E i \in 1..Len(call[p].params) :
            /\ WellFormed(call[p].params[i][2])
            /\ ActionOf(call[p].params[i][2]) = Str("add")
            /\ Len(AsList(Get(call[p].params[i][2], "id"))) = 2
            /\ Len(heap[p].params[i][2].items) = 2

\* a value that carries no action property
NoAction(v) == ~HasKey(v, "action")
PlainMap(ents) == \A i \in 1..Len(ents) : NoAction(ents[i][2])

\* C2 as stated: on a field map without relation commands the encoder
\* returns the input except that every bare list L has become [[6,0,L]].
C2_BareListBecomesReplace ==
    \A p \in Procs :
        (Parsed(p) /\ PlainMap(call[p].params)) =>
            \A i \in 1..Len(call[p].params) :
                LET v == call[p].params[i][2] IN
                heap[p].params[i] =
                    <<call[p].params[i][1],
                      IF IsArray(v) THEN Arr(<<Arr(<<Num(6), Num(0), v>>)>>) ELSE v>>

\* C2 amended: on a field map without relation commands the encoder returns
\* a map equal to the input; a bare list is left as it is, like every scalar
\* and nested object.
C2_PlainMapUnchanged ==
    \A p \in Procs :
        (Parsed(p) /\ PlainMap(call[p].params)) =>
            /\ heap[p].params = call[p].params
            /\ outcome[p].value = Obj(call[p].params)

\* a returned call whose map held a bare list of ids
C2_Witness ==
    \E p \in Procs :
        /\ Parsed(p)
        /\ PlainMap(call[p].params)
        /\ \E i \in 1..Len(call[p].params) :
            IsArray(call[p].params[i][2]) /\ Len(call[p].params[i][2].items) = 2

-----------------------------------------------------------------------------
(* Properties of create and update *)

Encoding(p) == call[p].op \in {"create", "update"}

\* a command that lacks what its action requires
Malformed(v) ==
    /\ v.t = "object"
    /\ \/ ActionOf(v) = Str("create") /\ ~HasKey(v, "value")
       \/ ActionOf(v) = Str("update") /\ (~HasKey(v, "id") \/ ~HasKey(v, "value"))
       \/ /\ ActionOf(v) \in {Str("add"), Str("remove"), Str("delete"), Str("replace")}
          /\ ~HasKey(v, "id")

HasMalformed(ents) == \E i \in 1..Len(ents) : Malformed(ents[i][2])

\* C3: a create or update whose field map holds a relation command without
\* the id or value its action requires has failed with an Error, and has
\* issued no RPC call.
C3_MalformedFailsBeforeRpc ==
    \A p \in Procs :
        (Encoding(p) /\ HasMalformed(call[p].params)) =>
            /\ Done(p)
            /\ outcome[p].status = "rejected"
            /\ outcome[p].value.t = "Error"
            /\ sent[p] = <<>>

\* an update that failed on a command in the second field of its map
C3_Witness ==
    \E p \in Procs :
        /\ call[p].op = "update"
        /\ Len(call[p].params) = 2
        /\ Malformed(call[p].params[2][2])
        /\ outcome[p].status = "rejected"

\* a value that carries an action the encoder does not know
UnknownAction(v) == HasKey(v, "action") /\ Truthy(ActionOf(v)) /\ ActionOf(v) \notin {Str(a) : a \in Actions}

\* whether an Error's message names the field key
Names(err, key) == err.t = "Error" /\ \E i \in 1..Len(err.message) : err.message[i] = key

\* C4: a create or update whose field map holds a value with an action that
\* is none of the seven has failed with an Error that names the field, and
\* has sent nothing to the backend.
C4_UnknownActionFails ==
    \A p \in Procs :
        Encoding(p) =>
            \A i \in 1..Len(call[p].params) :
                UnknownAction(call[p].params[i][2]) =>
                    /\ sent[p] = <<>>
                    /\ Done(p)
                    /\ outcome[p].status = "rejected"
                    /\ Names(outcome[p].value, call[p].params[i][1])

\* C5: when create or update has returned or failed, the field map the caller
\* passed, and the command objects in it, are what they were at the call.
C5_CallerMapUntouched ==
    \A p \in Procs :
        (Encoding(p) /\ Done(p)) => heap[p] = HeapOf(call[p].params)

-----------------------------------------------------------------------------
(* Properties of create with an external id *)

Replies_(p) == local[p].replies

\* the 'create' call on model with fields
IsCreateCall(c, model, fields) ==
    /\ c.method = "execute_kw"
    /\ callModel(c) = model
    /\ callMethod(c) = "create"
    /\ callArgs(c) = << Arr(<<fields>>) >>

\* the entry create binds the external id with
BindEntry(model, externalId, resId, moduleName) ==
    Obj(<< <<"model", Str(model)>>, <<"name", externalId>>, <<"res_id", resId>>,
           <<"module", IF moduleName = Undefined THEN Str("__api__") ELSE moduleName>> >>)

\* C6: create issues a 'create' on the model with the encoded fields; with an
\* externalId it issues, once that call has resolved with the new id N, a
\* 'create' on ir.model.data with {model, name: externalId, res_id: N, module:
\* moduleName or '__api__'}, and nothing else, and it returns N; without an
\* externalId it issues only the first call.
C6_CreateThenBind ==
    \A p \in Procs :
        (call[p].op = "create" /\ sent[p] # <<>>) =>
            LET c == call[p]
                N == Replies_(p)[1].value
            IN
            /\ IsCreateCall(sent[p][1], c.model, Obj(parseManyFields(c.params).heap.params))
            /\ Len(sent[p]) <= 2
            /\ Len(sent[p]) = 2 =>
                /\ c.externalId \in ExternalIds
                /\ Len(Replies_(p)) >= 1 /\ Replies_(p)[1].ok
                /\ IsCreateCall(sent[p][2], "ir.model.data",
                                BindEntry(c.model, c.externalId, N, c.moduleName))
            /\ (Done(p) /\ outcome[p].status = "fulfilled") =>
                /\ outcome[p].value = N
                /\ Len(sent[p]) = IF c.externalId \in ExternalIds THEN 2 ELSE 1

\* a create with an external id and no module name that returned
C6_Witness ==
    \E p \in Procs :
        /\ call[p].op = "create"
        /\ call[p].externalId = Str("ext-1")
        /\ call[p].moduleName = Undefined
        /\ Done(p) /\ outcome[p].status = "fulfilled"
        /\ Len(sent[p]) = 2
        /\ Replies_(p)[2].value # outcome[p].value

\* the create's bind call failed after its first call succeeded
BindFailed(p) ==
    /\ call[p].op = "create"
    /\ Len(Replies_(p)) = 2
    /\ Replies_(p)[1].ok
    /\ ~Replies_(p)[2].ok

\* C7: when the bind call of a create fails after the record was created, the
\* create fails with the bind call's error, no call follows the two, and the
\* backend holds no ir.model.data row for the new record.
C7_BindFailure ==
    \A p \in Procs :
        BindFailed(p) =>
            /\ Done(p)
            /\ outcome[p] = Rejected(Replies_(p)[2].value)
            /\ Len(sent[p]) = 2
            /\ \A i \in 1..Len(irData) : Get(irData[i], "res_id") # Replies_(p)[1].value

\* a create whose record got id 42 and whose bind call failed
C7_Witness ==
    \E p \in Procs :
        /\ BindFailed(p)
        /\ Replies_(p)[1].value = Num(42)
        /\ nextId = 43
        /\ outcome[p].status = "rejected"

-----------------------------------------------------------------------------
(* Properties of the *ByExternalId operations *)

ByExternalId(p) ==
    call[p].op \in {"searchByExternalId", "readByExternalId",
                    "updateByExternalId", "deleteByExternalId"}

\* the lookup of p's operation resolved with rows
LookedUp(p) == ByExternalId(p) /\ Len(Replies_(p)) >= 1 /\ Replies_(p)[1].ok
Rows(p) == Replies_(p)[1].value.items

\* C8: when the lookup of a *ByExternalId operation returns no row, the
\* operation has failed with an Error whose message contains the external id,
\* and the lookup is the only call it issued.
C8_LookupMiss ==
    \A p \in Procs :
        (LookedUp(p) /\ Rows(p) = <<>>) =>
            /\ Done(p)
            /\ outcome[p].status = "rejected"
            /\ Names(outcome[p].value, call[p].externalId.s)
            /\ Len(sent[p]) = 1

\* an updateByExternalId with a well-formed command that missed
C8_Witness ==
    \E p \in Procs :
        /\ call[p].op = "updateByExternalId"
        /\ LookedUp(p) /\ Rows(p) = <<>>
        /\ call[p].params = << <<"category_id", Command(Str("clear"), Undefined, Undefined)>> >>
        /\ irData # <<>>

\* the stored row a lookup's first row is
Stored(row) == CHOOSE i \in 1..Len(irData) : Get(irData[i], "id") = Get(row, "id")

RowsNamed(externalId) ==
    SelectRows(irData, Arr(<<Arr(<<Str("name"), Str("="), externalId>>)>>))

BindingsOf(externalId) ==
    {i \in 1..Len(bindings) : bindings[i].externalId = externalId}

\* C10: once createExternalId, or create with an external id, has bound ext
\* to a record and that is its only binding, a searchByExternalId(ext) whose
\* lookup resolves returns that record's id, whatever module name the binding
\* was made under.
C10_RoundTrip ==
    \A p \in Procs :
        (/\ call[p].op = "searchByExternalId"
         /\ LookedUp(p)
         /\ Cardinality(BindingsOf(call[p].externalId)) = 1) =>
            LET b == bindings[CHOOSE i \in BindingsOf(call[p].externalId) : TRUE] IN
            /\ Done(p)
            /\ outcome[p] = Fulfilled(b.recordId)

\* a search that returned the record bound under the module 'base'
C10_Witness ==
    \E p \in Procs :
        /\ call[p].op = "searchByExternalId"
        /\ Done(p) /\ outcome[p].status = "fulfilled"
        /\ \E i \in BindingsOf(call[p].externalId) :
            bindings[i].moduleName = Str("base") /\ bindings[i].recordId = outcome[p].value

-----------------------------------------------------------------------------
(* Delegation of the *ByExternalId operations *)

\* the row the lookup of p's operation resolved
Row(p) == Rows(p)[1]

\* the basic method each operation delegates to
Delegate(op) ==
    CASE op = "readByExternalId" -> "read"
      [] op = "updateByExternalId" -> "write"
      [] op = "deleteByExternalId" -> "unlink"
      [] OTHER -> "none"

\* the second call of p's operation goes to the resolved model and res_id
OnResolved(p) ==
    LET c == sent[p][2]
        first == At(callArgs(c)[1], 0)
    IN
    /\ callModel(c) = Get(Row(p), "model").s
    /\ callMethod(c) = Delegate(call[p].op)
    /\ CASE call[p].op = "readByExternalId" -> first = Arr(<<Get(Row(p), "res_id")>>)
         [] OTHER -> first = Get(Row(p), "res_id")

\* what the operation returns for the reply of its delegated call
Delegated(p, reply) ==
    IF ~reply.ok THEN Rejected(reply.value)
    ELSE CASE call[p].op = "readByExternalId" -> Fulfilled(At(reply.value, 0))
           [] call[p].op = "updateByExternalId" -> Fulfilled(reply.value)
           [] OTHER -> Fulfilled(Bool(TRUE))

\* C11: when the lookup returns at least one row, readByExternalId,
\* updateByExternalId and deleteByExternalId issue exactly one further call,
\* the read / write / unlink on the model and res_id of the resolved row, and
\* no second call is there before the lookup resolved; readByExternalId
\* returns the first element of the read result, updateByExternalId and
\* deleteByExternalId return what update and delete return, and
\* searchByExternalId returns the row's res_id with no second call.
C11_Delegation ==
    \A p \in Procs :
        /\ (ByExternalId(p) /\ Len(sent[p]) > 1) => LookedUp(p) /\ Rows(p) # <<>>
        /\ (LookedUp(p) /\ Rows(p) # <<>>) =>
             IF call[p].op = "searchByExternalId"
             THEN /\ Len(sent[p]) = 1
                  /\ outcome[p] = Fulfilled(Get(Row(p), "res_id"))
             ELSE /\ Len(sent[p]) = 2
                  /\ OnResolved(p)
                  /\ Done(p) => /\ Len(Replies_(p)) = 2
                                /\ outcome[p] = Delegated(p, Replies_(p)[2])

\* the delegation of the operations whose field map, if they take one, passes
\* the encoder
C11_DelegationOfValidCalls ==
    \A p \in Procs :
        /\ (ByExternalId(p) /\ Len(sent[p]) > 1) => LookedUp(p) /\ Rows(p) # <<>>
        /\ (LookedUp(p) /\ Rows(p) # <<>> /\ ~parseManyFields(call[p].params).threw) =>
             IF call[p].op = "searchByExternalId"
             THEN /\ Len(sent[p]) = 1
                  /\ outcome[p] = Fulfilled(Get(Row(p), "res_id"))
             ELSE /\ Len(sent[p]) = 2
                  /\ OnResolved(p)
                  /\ Done(p) => /\ Len(Replies_(p)) = 2
                                /\ outcome[p] = Delegated(p, Replies_(p)[2])

\* an updateByExternalId whose lookup resolved a row and whose field map the
\* encoder rejected: the lookup is the only call it issued
C11_Witness ==
    \E p \in Procs :
        /\ call[p].op = "updateByExternalId"
        /\ LookedUp(p) /\ Rows(p) # <<>>
        /\ Done(p) /\ Len(sent[p]) = 1
        /\ outcome[p].status = "rejected"

-----------------------------------------------------------------------------
(* Properties of search and searchRead *)

Searching(p) == call[p].op \in {"search", "searchRead"}

\* the triple list p's search sent
SentDomain(p) == At(callArgs(sent[p][1])[1], 0)

IsMapping(d) == d.t = "object"
\* a 3-element sequence whose first element is a field-name string
IsTriple(d) == IsArray(d) /\ Len(d.items) = 3 /\ d.items[1].t = "string"
IsTripleList(d) == IsArray(d) /\ \A i \in 1..Len(d.items) : IsTriple(d.items[i])

\* C12: in search and searchRead an absent domain or an empty mapping yields
\* the empty triple list; a non-empty mapping yields exactly one triple
\* [key, '=', value] per entry, in the mapping's iteration order, and nothing
\* else.
C12_MappingDomain ==
    \A p \in Procs :
        (Searching(p) /\ sent[p] # <<>>) =>
            LET d == call[p].domain IN
            /\ (d = Undefined \/ d = Obj(<<>>)) => SentDomain(p) = Arr(<<>>)
            /\ (IsMapping(d) /\ d.ents # <<>>) =>
                 /\ IsArray(SentDomain(p))
                 /\ Len(SentDomain(p).items) = Len(d.ents)
                 /\ \A i \in 1..Len(d.ents) :
                        SentDomain(p).items[i] = Arr(<<Str(d.ents[i][1]), Str("="), d.ents[i][2]>>)

\* a search on the mapping {a: 1, b: 'x'} that returned
C12_Witness ==
    \E p \in Procs :
        /\ call[p].op = "search"
        /\ call[p].domain = Obj(<< <<"a", Num(1)>>, <<"b", Str("x")>> >>)
        /\ Done(p) /\ outcome[p].status = "fulfilled"

\* C13: in search and searchRead a single filter triple is wrapped into a
\* one-element list, and a list of filter triples is passed on unchanged, the
\* same elements in the same order.
C13_TripleDomain ==
    \A p \in Procs :
        (Searching(p) /\ sent[p] # <<>>) =>
            LET d == call[p].domain IN
            /\ IsTriple(d) => SentDomain(p) = Arr(<<d>>)
            /\ (IsTripleList(d) /\ d.items # <<>>) => SentDomain(p) = d

\* a searchRead on a list of two filter triples that returned
C13_Witness ==
    \E p \in Procs :
        /\ call[p].op = "searchRead"
        /\ IsTripleList(call[p].domain) /\ Len(call[p].domain.items) = 2
        /\ Done(p) /\ outcome[p].status = "fulfilled"

\* an array that is neither a filter triple nor a list of filter triples
MalformedDomain(d) == IsArray(d) /\ ~IsTriple(d) /\ ~IsTripleList(d)

\* C14: a malformed domain given to search or searchRead fails with a
\* validation error before any RPC call is issued; it is never turned into
\* filter triples and sent.
C14_MalformedDomainFails ==
    \A p \in Procs :
        (Searching(p) /\ MalformedDomain(call[p].domain)) =>
            /\ sent[p] = <<>>
            /\ Done(p) /\ outcome[p].status = "rejected"
            /\ outcome[p].value.t = "Error"

\* the search on [5, 6] sent the triples ['0', '=', 5] and ['1', '=', 6]
C14_Witness ==
    \E p \in Procs :
        /\ call[p].op = "search"
        /\ call[p].domain = Arr(<<Num(5), Num(6)>>)
        /\ sent[p] # <<>>
        /\ SentDomain(p) = Arr(<<Arr(<<Str("0"), Str("="), Num(5)>>),
                                 Arr(<<Str("1"), Str("="), Num(6)>>)>>)

-----------------------------------------------------------------------------
(* Properties of update, delete and read *)

\* the call p's operation issued, and its reply
TheCall(p) == sent[p][1]
TheReply(p) == Replies_(p)[1]

\* what the encoder makes of a field value it accepts
EncodedField(v) == IF WellFormed(v) THEN ExpectedTuples(v) ELSE v

\* C15: update(model, idOrIds, fields), when the field encoder has an output,
\* issues exactly one execute_kw 'write' call on the model whose params are
\* [[idOrIds, encodedFields]], encodedFields being that output: the command
\* tuples for each well-formed command, the value itself for each value
\* without action; update('res.partner', 9, {category_id: {action:'replace',
\* id: 3}}) sends [[9, {category_id: [[6,0,[3]]]}]].
C15_UpdateCall ==
    \A p \in Procs :
        (call[p].op = "update" /\ ~parseManyFields(call[p].params).threw) =>
            LET ents == call[p].params
                fields == At(callArgs(TheCall(p))[1], 1)
            IN
            /\ Len(sent[p]) = 1
            /\ TheCall(p).method = "execute_kw"
            /\ callModel(TheCall(p)) = call[p].model
            /\ callMethod(TheCall(p)) = "write"
            /\ callArgs(TheCall(p)) =
                 << Arr(<<call[p].recordId, Obj(parseManyFields(ents).heap.params)>>) >>
            /\ \A i \in 1..Len(ents) :
                 (WellFormed(ents[i][2]) \/ NoAction(ents[i][2])) =>
                    fields.ents[i] = <<ents[i][1], EncodedField(ents[i][2])>>
            /\ (call[p].recordId = Num(9)
                /\ ents = << <<"category_id", Command(Str("replace"), Num(3), Undefined)>> >>) =>
                 callArgs(TheCall(p)) =
                    << Arr(<<Num(9),
                             Obj(<< <<"category_id",
                                      Arr(<<Arr(<<Num(6), Num(0), Arr(<<Num(3)>>)>>)>>)>> >>)>>) >>

\* the update of the example, sent
C15_Witness ==
    \E p \in Procs :
        /\ call[p].op = "update"
        /\ call[p].recordId = Num(9)
        /\ call[p].params = << <<"category_id", Command(Str("replace"), Num(3), Undefined)>> >>
        /\ Len(sent[p]) = 1 /\ Done(p)

\* C16: update returns the boolean true whenever its write call resolves
\* without error, whatever value the backend's response carries.
C16_UpdateReturnsTrue ==
    \A p \in Procs :
        (call[p].op = "update" /\ Done(p) /\ Replies_(p) # <<>> /\ TheReply(p).ok) =>
            outcome[p] = Fulfilled(Bool(TRUE))

\* an update whose write resolved with false, and which returned false
C16_Witness ==
    \E p \in Procs :
        /\ call[p].op = "update" /\ Done(p)
        /\ Replies_(p) # <<>> /\ TheReply(p).ok /\ TheReply(p).value = Bool(FALSE)
        /\ outcome[p] = Fulfilled(Bool(FALSE))

\* C17: delete(model, idOrIds) issues exactly one 'unlink' call with params
\* [[idOrIds]]; it returns true if and only if that call resolves without
\* error, and otherwise fails with the call's error.
C17_Delete ==
    \A p \in Procs :
        call[p].op = "delete" =>
            /\ Len(sent[p]) = 1
            /\ TheCall(p).method = "execute_kw"
            /\ callModel(TheCall(p)) = call[p].model
            /\ callMethod(TheCall(p)) = "unlink"
            /\ callArgs(TheCall(p)) = << Arr(<<call[p].recordId>>) >>
            /\ Done(p) =>
                /\ Len(Replies_(p)) = 1
                /\ outcome[p] = Fulfilled(Bool(TRUE)) <=> TheReply(p).ok
                /\ ~TheReply(p).ok => outcome[p] = Rejected(TheReply(p).value)

\* a delete of a list of ids whose unlink resolved with false: it returned true
C17_Witness ==
    \E p \in Procs :
        /\ call[p].op = "delete" /\ IsArray(call[p].recordId) /\ Done(p)
        /\ TheReply(p).ok /\ TheReply(p).value = Bool(FALSE)
        /\ outcome[p] = Fulfilled(Bool(TRUE))

\* C18: read(model, idOrIds, fields) issues exactly one 'read' call whose id
\* argument is always a list, a bare id wrapped into a one-element list and a
\* list passed in the caller's order; a field restriction is sent only when
\* fields is non-empty, and the backend's result list is returned unmodified.
C18_Read ==
    \A p \in Procs :
        call[p].op = "read" =>
            LET args == callArgs(TheCall(p))
                fields == call[p].fields
                some == fields # Undefined /\ fields.items # <<>>
            IN
            /\ Len(sent[p]) = 1
            /\ TheCall(p).method = "execute_kw"
            /\ callModel(TheCall(p)) = call[p].model
            /\ callMethod(TheCall(p)) = "read"
            /\ args[1] = Arr(<< IF IsArray(call[p].recordId) THEN call[p].recordId
                                ELSE Arr(<<call[p].recordId>>) >>)
            /\ IsArray(At(args[1], 0))
            /\ IF some
               THEN Len(args) = 2 /\ args[2] = Obj(<< <<"fields", fields>> >>)
               ELSE Len(args) = 1
            /\ Done(p) =>
                /\ Len(Replies_(p)) = 1
                /\ outcome[p] = IF TheReply(p).ok THEN Fulfilled(TheReply(p).value)
                                ELSE Rejected(TheReply(p).value)

\* a read of a bare id without fields that returned the backend's list of
\* one record
C18_Witness ==
    \E p \in Procs :
        /\ call[p].op = "read" /\ call[p].recordId = Num(9)
        /\ call[p].fields \in {Undefined, Arr(<<>>)}
        /\ Done(p) /\ outcome[p] = Fulfilled(Arr(<<Record(Num(9))>>))

-----------------------------------------------------------------------------
(* Properties of the calls sent *)

\* the keyword arguments p's searchRead sent
SentOptions(p) == callArgs(TheCall(p))[2]

OptionKeys == {"offset", "limit", "order"}

\* C19: searchRead sends the caller's offset, limit and order verbatim: for
\* every options argument, left out, complete or partial, each key supplied is
\* sent with the caller's value and each key not supplied with its default,
\* offset 0, limit 0, order ''.
C19_OptionsWithDefaults ==
    \A p \in Procs :
        (call[p].op = "searchRead" /\ sent[p] # <<>>) =>
            \A k \in OptionKeys :
                Get(SentOptions(p), k) =
                    IF HasKey(call[p].opts, k) THEN Get(call[p].opts, k)
                    ELSE Get(DefaultOpts, k)

\* the searchRead of the sorting tests, opts = {order: 'name desc'}: offset
\* and limit were sent undefined
C19_Witness ==
    \E p \in Procs :
        /\ call[p].op = "searchRead"
        /\ call[p].opts = Obj(<< <<"order", Str("name desc")>> >>)
        /\ sent[p] # <<>>
        /\ Get(SentOptions(p), "order") = Str("name desc")
        /\ Get(SentOptions(p), "offset") = Undefined
        /\ Get(SentOptions(p), "limit") = Undefined

\* how many params of its own each method is called with
Arity ==
    [create |-> {1}, read |-> {1, 2}, write |-> {1}, unlink |-> {1},
     search |-> {1}, search_read |-> {2}, fields_get |-> {2}]

\* C20: every object-operations call sent to the gateway is the method
\* 'execute_kw' with a positional list that starts with exactly (db, uid,
\* password, model, method) and goes on with the operation's own params in
\* order, a second execute_kw call made with the same params array included.
C20_PositionalParams ==
    \A p \in Procs :
        call[p].op # "connect" =>
            \A i \in 1..Len(sent[p]) :
                LET c == sent[p][i] IN
                /\ c.method = "execute_kw"
                /\ Len(c.params) >= 5
                /\ SubSeq(c.params, 1, 3) = <<Str(db), uid, Str(password)>>
                /\ c.params[4].t = "string" /\ c.params[5].t = "string"
                /\ callMethod(c) \in DOMAIN Arity
                /\ Len(callArgs(c)) \in Arity[callMethod(c)]
                /\ call[p].op = "execute_kw" =>
                     c.params = <<Str(db), uid, Str(password), Str(call[p].model),
                                  Str(call[p].method)>> \o call[p].params

\* a second execute_kw call with the same array: the five leading values
\* are there twice
C20_Witness ==
    \E p \in Procs :
        /\ call[p].op = "execute_kw" /\ sent[p] # <<>>
        /\ Len(TheCall(p).params) = 10 + Len(call[p].params)
        /\ SubSeq(TheCall(p).params, 6, 8) = <<Str(db), uid, Str(password)>>

\* the positional params of the calls that are not a repeated execute_kw
C20_PositionalParamsOfFreshArrays ==
    \A p \in Procs :
        (call[p].op # "connect" /\ ~C20_Witness) =>
            \A i \in 1..Len(sent[p]) :
                LET c == sent[p][i] IN
                /\ c.method = "execute_kw"
                /\ SubSeq(c.params, 1, 3) = <<Str(db), uid, Str(password)>>
                /\ callMethod(c) \in DOMAIN Arity
                /\ Len(callArgs(c)) \in Arity[callMethod(c)]

-----------------------------------------------------------------------------
(* Properties of failing calls, of connect and of the session *)

\* p has called an operation of the client
Called(p) == call[p].op \notin {"none", "parseManyFields"}

\* C21: when an RPC call of an operation fails, the operation fails with
\* exactly the error value the gateway reported, issues no further call (the
\* second step of a two-step operation is skipped) and does not issue the
\* failed call again.
C21_FailurePropagates ==
    \A p \in Procs :
        Called(p) =>
            \A i \in 1..Len(Replies_(p)) :
                ~Replies_(p)[i].ok =>
                    /\ Done(p)
                    /\ outcome[p] = Rejected(Replies_(p)[i].value)
                    /\ i = Len(Replies_(p))
                    /\ Len(sent[p]) = i

\* a readByExternalId whose lookup failed: no read was issued
C21_Witness ==
    \E p \in Procs :
        /\ call[p].op = "readByExternalId" /\ Done(p)
        /\ Len(Replies_(p)) = 1 /\ ~Replies_(p)[1].ok
        /\ Len(sent[p]) = 1
        /\ outcome[p] = Rejected([t |-> "fault", faultString |-> "ECONNREFUSED"])
        /\ irData # <<>>

\* the step in which p's connect settles
ConnectSettles(p) == pc[p] = "connect:63" /\ pc'[p] = "done"

ConnectionFailed == Str("Error connecting to database. This is probably due to invalid credentials.")

\* C22: connect fails with the transport error when the authenticate call
\* errors, and with the connection-failed / check-credentials condition when
\* the backend returns no or a false user id, and in both cases the stored
\* user id keeps the value it had before the call; on success connect stores
\* the returned user id and returns it.
C22_Connect ==
    [][\A p \in Procs :
        ConnectSettles(p) =>
            LET reply == Replies_(p)'[1] IN
            /\ Len(Replies_(p)') = 1
            /\ IF ~reply.ok
               THEN outcome'[p] = Rejected(reply.value) /\ uid' = uid
               ELSE IF reply.value \in {Bool(FALSE), Undefined, Null, Num(0)}
                    THEN outcome'[p] = Rejected(ConnectionFailed) /\ uid' = uid
                    ELSE outcome'[p] = Fulfilled(reply.value) /\ uid' = reply.value]_vars

\* a connect that was answered false on a client that was connected before:
\* it failed, the stored user id is the earlier one
C22_Witness ==
    \E p \in Procs :
        /\ call[p].op = "connect" /\ Done(p)
        /\ Replies_(p)[1].ok /\ Replies_(p)[1].value = Bool(FALSE)
        /\ outcome[p] = Rejected(ConnectionFailed)
        /\ uid = Num(2)

\* C23 as stated: the stored user id is written only at connect time and
\* only once; no other operation changes it, and once a successful connect
\* has set it, it keeps that value in every later state.
C23_WrittenOnce ==
    [][uid' # uid =>
            /\ \E p \in Procs : ConnectSettles(p)
            /\ uid = Num(0)]_vars

\* C23 amended: the stored user id is written only by a connect that
\* succeeds, which stores the id authenticate returned; no other operation
\* and no failing connect changes it, and it keeps its value until the next
\* successful connect, which overwrites it.
C23_WrittenByConnectOnly ==
    [][uid' # uid =>
            \E p \in Procs :
                /\ ConnectSettles(p)
                /\ outcome'[p] = Fulfilled(uid')
                /\ Replies_(p)'[1] = [ok |-> TRUE, value |-> uid']]_vars

\* a search that returned ids on a connected client: the user id is the one
\* connect stored, and the one the search was sent with
C23_Witness ==
    \E p \in Procs :
        /\ call[p].op = "search" /\ Done(p)
        /\ outcome[p] = Fulfilled(Arr(<<Num(9), Num(4)>>))
        /\ uid = Num(7) /\ TheCall(p).params[2] = uid

-----------------------------------------------------------------------------
(* Properties of operations in flight together *)

\* The calls an operation called with the arguments c has issued, and its
\* outcome, when it runs alone and the gateway has so far answered replies.
Alone(c, replies) ==
    LET r == parseManyFields(c.params)
        byExternalId == c.op \in {"readByExternalId", "deleteByExternalId"}
        first ==
            CASE c.op = "create" ->
                    execute_kw(c.model, "create", << Arr(<<Obj(r.heap.params)>>) >>)
              [] c.op = "update" ->
                    execute_kw(c.model, "write", << Arr(<<c.recordId, Obj(r.heap.params)>>) >>)
              [] c.op = "read" -> read(c.model, c.recordId, Default(c.fields, Arr(<<>>)))
              [] c.op = "delete" -> execute_kw(c.model, "unlink", << Arr(<<c.recordId>>) >>)
              [] OTHER -> lookup(c.externalId, Arr(<<Str("res_id"), Str("model")>>))
        v == replies[1].value
        row == At(v, 0)
        twoStep ==
            \/ c.op = "create" /\ Truthy(c.externalId)
            \/ byExternalId /\ Len(v.items) > 0
        second ==
            CASE c.op = "create" ->
                    createExternalId(Str(c.model), v, c.externalId,
                                     Or(c.moduleName, Str(DefaultModule)))
              [] c.op = "readByExternalId" ->
                    read(Get(row, "model").s, Arr(<<Get(row, "res_id")>>), c.fields)
              [] OTHER ->
                    execute_kw(Get(row, "model").s, "unlink", << Arr(<<Get(row, "res_id")>>) >>)
        oneStepOutcome ==
            CASE c.op = "delete" -> Fulfilled(Bool(TRUE))
              [] c.op = "readByExternalId" ->
                    Rejected(LookupMiss("No matching record found for external identifier ",
                                        c.externalId))
              [] c.op = "deleteByExternalId" ->
                    Rejected(LookupMiss("No matching record found for external ID ",
                                        c.externalId))
              [] OTHER -> Fulfilled(v)
        twoStepOutcome ==
            IF ~replies[2].ok THEN Rejected(replies[2].value)
            ELSE CASE c.op = "create" -> Fulfilled(v)
                   [] c.op = "readByExternalId" -> Fulfilled(At(replies[2].value, 0))
                   [] OTHER -> Fulfilled(Bool(TRUE))
    IN
    IF c.op \in {"create", "update"} /\ r.threw
    THEN [sent |-> <<>>, outcome |-> Rejected(r.err)]
    ELSE IF replies = <<>> THEN [sent |-> <<first>>, outcome |-> Pending]
    ELSE IF ~replies[1].ok THEN [sent |-> <<first>>, outcome |-> Rejected(v)]
    ELSE IF ~twoStep THEN [sent |-> <<first>>, outcome |-> oneStepOutcome]
    ELSE IF Len(replies) = 1 THEN [sent |-> <<first, second>>, outcome |-> Pending]
    ELSE [sent |-> <<first, second>>, outcome |-> twoStepOutcome]

\* C24: operations issued concurrently on one connected client are
\* independent: in every interleaving of the completions of two operations
\* in flight, each operation has issued the calls, with the parameters, and
\* has the result or error that it has when it runs alone and the gateway
\* gives it the same responses.
C24_Independent ==
    \A p \in Procs :
        Called(p) =>
            /\ sent[p] = Alone(call[p], Replies_(p)).sent
            /\ outcome[p] = Alone(call[p], Replies_(p)).outcome

\* a create with an external id, its record created, is waiting for its
\* binding while a readByExternalId of that id is waiting for its lookup
C24_Witness ==
    \E p, q \in Procs :
        /\ p # q
        /\ call[p].op = "create" /\ call[p].externalId = Str("ext-1")
        /\ pc[p] = "create:182" /\ Len(Replies_(p)) = 1
        /\ call[q].op = "readByExternalId" /\ call[q].externalId = Str("ext-1")
        /\ pc[q] = "readByExternalId:379"

\* the calls of p's operation that have not been answered
Unanswered(p) == Len(sent[p]) - Len(Replies_(p))

\* C25: every operation issues at most two RPC calls per invocation, and
\* never has two of its own calls in flight at once: the second is issued
\* only after the first has resolved.
C25_AtMostTwoInTurn ==
    \A p \in Procs :
        Called(p) =>
            /\ Len(sent[p]) <= 2
            /\ Unanswered(p) \in {0, 1}
            /\ Len(sent[p]) = 2 => Replies_(p) # <<>> /\ Replies_(p)[1].ok
            /\ Done(p) => Unanswered(p) = 0

\* a deleteByExternalId that has returned: two calls, both answered
C25_Witness ==
    \E p \in Procs :
        /\ call[p].op = "deleteByExternalId" /\ Done(p)
        /\ Len(sent[p]) = 2 /\ Len(Replies_(p)) = 2
        /\ outcome[p] = Fulfilled(Bool(TRUE))

-----------------------------------------------------------------------------
(* Properties of a relation field written and read back *)

\* the ids the read of caller 2 shows in the relation field
Shown(p) == IdSet(Get(At(outcome[p].value, 0), RelatedField).items)

\* caller 1's last update has returned and caller 2's read after it has
\* returned the record
ReadBack ==
    /\ call[1].op = "update" /\ Done(1) /\ outcome[1].status = "fulfilled"
    /\ call[2].op = "read" /\ Done(2) /\ outcome[2].status = "fulfilled"
    /\ outcome[2].value.items # <<>>

\* what the last update gave for the relation field
Given == Get(Obj(call[1].params), RelatedField)

-----------------------------------------------------------------------------
(* Properties of the values the encoder passes on *)

\* the field map in the call a create or update issued
SentFields(p) ==
    IF call[p].op = "create" THEN At(callArgs(TheCall(p))[1], 0)
    ELSE At(callArgs(TheCall(p))[1], 1)

\* C27: a field whose value is null, or any other value without an action
\* property such as 0, false or an empty string, never makes create or update
\* fail locally: a map of such values is always sent, and whenever the call is
\* issued every such field is in it with its value unchanged.
C27_PlainValuesPassThrough ==
    \A p \in Procs :
        Encoding(p) =>
            /\ PlainMap(call[p].params) => sent[p] # <<>>
            /\ sent[p] # <<>> =>
                 /\ Len(SentFields(p).ents) = Len(call[p].params)
                 /\ \A i \in 1..Len(call[p].params) :
                        NoAction(call[p].params[i][2]) =>
                            SentFields(p).ents[i] = call[p].params[i]

\* a create of a record with '', false, 0 and null that returned the new id
C27_Witness ==
    \E p \in Procs :
        /\ call[p].op = "create" /\ Done(p) /\ outcome[p].status = "fulfilled"
        /\ call[p].params = << <<"name", Str("")>>, <<"active", Bool(FALSE)>>,
                               <<"color", Num(0)>>, <<"parent_id", Null>> >>
        /\ SentFields(p) = Obj(call[p].params)

\* C28: updateByExternalId with a field map that holds a malformed relation
\* command fails with the validation error before any RPC call is issued,
\* before the external-id lookup as well as before the write.
C28_ValidatesBeforeLookup ==
    \A p \in Procs :
        (call[p].op = "updateByExternalId" /\ HasMalformed(call[p].params)) =>
            /\ sent[p] = <<>>
            /\ Done(p) /\ outcome[p].status = "rejected"
            /\ outcome[p].value.t = "Error"

\* an updateByExternalId with an 'update' command without id: the lookup was
\* issued and answered, and only then the validation error raised
C28_Witness ==
    \E p \in Procs :
        /\ call[p].op = "updateByExternalId"
        /\ call[p].params = << <<"category_id", Command(Str("update"), Undefined, ValueObj1)>> >>
        /\ Len(sent[p]) = 1 /\ callMethod(TheCall(p)) = "search_read"
        /\ LookedUp(p) /\ Rows(p) # <<>>
        /\ Done(p) /\ outcome[p].value.t = "Error"

-----------------------------------------------------------------------------
(* search and searchRead compared *)

\* the first positional argument of the call p's search issued
FirstArg(p) == callArgs(TheCall(p))[1]

\* C29: search and searchRead normalize the domain identically: for every
\* domain, left out, mapping, single triple, list of triples or any other
\* value, the triple list search(model, d) sends is the one
\* searchRead(model, d, ...) sends, and both send it as the single element of
\* the first positional argument.
C29_SameNormalization ==
    \A p \in Procs :
        (Searching(p) /\ sent[p] # <<>>) =>
            LET d == call[p].domain
                other == IF call[p].op = "search"
                         THEN searchRead(call[p].model, d, Arr(<<>>), DefaultOpts)
                         ELSE search(call[p].model, d)
            IN
            /\ FirstArg(p) = callArgs(other)[1]
            /\ IsArray(FirstArg(p)) /\ Len(FirstArg(p).items) = 1
            /\ IsArray(SentDomain(p))

\* a search on a value that is neither mapping nor array: like searchRead it
\* sent the empty list
C29_Witness ==
    \E p \in Procs :
        /\ call[p].op = "search" /\ call[p].domain = Num(5)
        /\ Done(p)
        /\ FirstArg(p) = Arr(<<Arr(<<>>)>>)

-----------------------------------------------------------------------------
(* Properties of a field map passed twice *)

\* p calls create or update with its field-map object as the previous call
\* left it, and both calls are sent
SentAgain(p) ==
    /\ Encoding(p) /\ Done(p) /\ sent[p] # <<>>
    /\ nops' = nops + 1
    /\ call'[p].op \in {"create", "update"}
    /\ call'[p].params = heap[p].params

\* C30: the field encoder is idempotent: applied to its own output it
\* changes nothing, so a caller that passes the same field-map object to two
\* successive create or update calls sends the same encoded fields in both.
C30_Idempotent ==
    /\ [](\A p \in Procs :
            (Encoding(p) /\ sent[p] # <<>>) =>
                /\ ~parseManyFields(heap[p].params).threw
                /\ parseManyFields(heap[p].params).heap.params = heap[p].params)
    /\ [][\A p \in Procs :
            SentAgain(p) => /\ sent'[p] # <<>>
                            /\ SentFields(p)' = SentFields(p)]_vars

\* an update given the map an earlier call had encoded from a replace command: the
\* same [[6,0,[3]]] is sent
C30_Witness ==
    \E p \in Procs :
        /\ call[p].op = "update"
        /\ call[p].params = << <<"category_id", Arr(<<Arr(<<Num(6), Num(0), Arr(<<Num(3)>>)>>)>>)>> >>
        /\ sent[p] # <<>>
        /\ SentFields(p) = Obj(call[p].params)

====
